---- MODULE Spec2Model ----
(***************************************************************************)
(* Verification model of the Lidar-RP2040 dual-core trigger firmware:      *)
(* the debounce/latch pipeline (trigger.cpp), the per-frame processing on   *)
(* Core 1 (core1_handling.cpp), the lock-protected frame queue              *)
(* (globals.cpp), the sensor framing machine on Core 0                      *)
(* (core0_handling.cpp) and the configuration store (storage.cpp, gui.cpp). *)
(***************************************************************************)
EXTENDS Integers, Sequences, FiniteSets, TLC

VARIABLES
  now,            \* value returned by millis(), a uint32_t
  deb,            \* TriggerDebouncer fields
  latch,          \* TriggerLatch fields
  deb_ret,        \* value returned by the last TriggerDebouncer::update
  latch_ret,      \* value returned by the last TriggerLatch::update
  call_in,        \* argument of the last update call
  calls,          \* number of update calls / frames processed so far
  obs,            \* observer of the call history (not program state)
  frame,          \* processIncomingFrames: the frame being processed
  calculated_velocity, \* processIncomingFrames: velocity of that frame, cm/s
  switch_code,    \* processIncomingFrames: copy of core_comm.switch_code
  raw_trigger,    \* processIncomingFrames: distance_ok && velocity_ok
  last_trigger_state, \* processIncomingFrames: static, previous final_trigger
  pin,            \* level driven on TRIG_PULSE_LOW_PIN
  neo_flash,      \* triggerNeoPixelFlash has been called
  last_switch_read, \* loop1_handler: static, time of the last switch read
  core_comm,      \* CoreComm, guarded by comm_mutex
  currentConfig,  \* the active LidarConfiguration
  frame_buffer,   \* LidarFrame frame_buffer[FRAME_BUFFER_SIZE]
  buffer_head,    \* volatile uint8_t buffer_head
  buffer_tail,    \* volatile uint8_t buffer_tail
  buffer_count,   \* volatile uint8_t buffer_count
  mutex,          \* owner of buffer_mutex, comm_mutex, perf_mutex, serial_mutex
  pc,             \* position of each core in the queue operations
  loc,            \* local variables of the operation each core is in
  perf_metrics,   \* PerformanceMetrics, guarded by perf_mutex
  qobs,           \* observer of the queue traffic (not program state)
  now_us,         \* microseconds within the current millisecond
  wire,           \* bytes the sensor has sent that have not arrived yet
  rx,             \* Serial1 receive buffer
  ser,            \* static variables of processLidarSerial
  timing_info,    \* TimingInfo
  fobs,           \* observer of the framing decisions (not program state)
  runtimeGlobals, \* GlobalConfiguration runtimeGlobals
  storage,        \* the files kept in LittleFS
  cfg_ret,        \* what the last saveConfiguration call returned
  cobs,           \* observer of the GUI commands (not program state)
  velocity_calc,  \* processIncomingFrames: static AdaptiveVelocityCalculator
  vel_ret,        \* value returned by the last calculateVelocity call
  vobs,           \* observer of the velocity calls (not program state)
  elapsed,        \* the last safeMillisElapsed / safeMicrosElapsed call
  lock_pc,        \* the lock steps each core is running, and how far it is
  core0_state,    \* Core0InitState core0_state
  core0_state_timer, \* uint32_t core0_state_timer
  core0_static,   \* static variables of processCore0StateMachine, attemptRecovery
  core1_state,    \* Core1InitState core1_state
  core1_state_timer, \* uint32_t core1_state_timer
  c0obs,          \* observer of the recoveries (not program state)
  current_state,  \* SystemState current_state
  loop1,          \* loop1_handler: where Core 1 is in its pass, and its locals
  l1obs           \* observer of Core 1's passes (not program state)

trigVars == <<now, deb, latch, deb_ret, latch_ret, call_in, calls, obs>>
pipeVars == <<frame, calculated_velocity, switch_code, raw_trigger,
              last_trigger_state, pin, neo_flash, last_switch_read>>
commVars == <<core_comm>>
cfgVars  == <<currentConfig, runtimeGlobals, storage, cfg_ret, cobs>>
bufVars  == <<frame_buffer, buffer_head, buffer_tail, buffer_count>>
coreVars == <<mutex, pc, loc, perf_metrics, qobs>>
frameVars == <<now_us, wire, rx, ser, timing_info, fobs>>
velVars  == <<velocity_calc, vel_ret, vobs>>
elVars   == <<elapsed>>
lockVars == <<lock_pc>>
c0Vars   == <<core0_state, core0_state_timer, core0_static, core1_state,
              core1_state_timer, c0obs>>
l1Vars   == <<current_state, loop1, l1obs>>
restVars == <<elVars, lockVars, c0Vars, l1Vars>>
otherVars == <<velVars, restVars>>

vars == <<trigVars, pipeVars, commVars, cfgVars, bufVars, coreVars, frameVars,
          otherVars>>

-----------------------------------------------------------------------------
(* Integer widths *)

\* millis() and micros() are uint32_t counters that wrap.  TLC's integers
\* are 32-bit signed, so the counters are modelled with a narrower modulus,
\* still much larger than every duration the firmware compares against.
TimerMod == 65536
UINT32_MOD == TimerMod
UINT32_MAX == UINT32_MOD - 1

\* safeMillisElapsed with the final + 1 of the wrapped branch left out
safeMillisElapsed_nocarry(start, current) ==
  IF current >= start THEN current - start
                      ELSE (UINT32_MAX - start + current) % UINT32_MOD

\* globals.cpp: safeMillisElapsed / safeMicrosElapsed (same body)
safeMillisElapsed(start, current) ==
  IF current >= start THEN current - start
                      ELSE (UINT32_MAX - start + current + 1) % UINT32_MOD

\* Distance on the 32-bit timer circle, used by the properties only.
Elapsed32(from, to) == (to - from + UINT32_MOD) % UINT32_MOD

-----------------------------------------------------------------------------
(* trigger.h constants *)

latch_duration_ms == 3000
debounce_on_ms    == 30
debounce_off_ms   == 50
min_pulse_ms      == 20

\* TriggerLatch after construction
LatchInit == [state |-> "IDLE", latch_start_time |-> 0]

\* TriggerDebouncer after construction
DebouncerInit == [last_change_time |-> 0, last_state_time |-> 0,
                  current_state |-> FALSE, last_raw_state |-> FALSE]

\* A latch that forgets the hold and follows its input (mutant).
LatchUpdate_follow(l, trigger_event, t) ==
  IF trigger_event
    THEN [state |-> "LATCHED",
          latch_start_time |-> IF l.state = "IDLE" THEN t ELSE l.latch_start_time]
    ELSE [l EXCEPT !.state = "IDLE"]

\* A latch that releases one millisecond late (mutant).
LatchUpdate_late(l, trigger_event, t) ==
  CASE l.state = "IDLE" ->
         IF trigger_event
           THEN [state |-> "LATCHED", latch_start_time |-> t]
           ELSE l
    [] l.state = "LATCHED" ->
         IF safeMillisElapsed(l.latch_start_time, t) > latch_duration_ms
           THEN [l EXCEPT !.state = "IDLE"]
           ELSE l

\* A latch that, expiring with its input true, starts the next hold in the
\* same call (mutant).
LatchUpdate_retrigger(l, trigger_event, t) ==
  CASE l.state = "IDLE" ->
         IF trigger_event
           THEN [state |-> "LATCHED", latch_start_time |-> t]
           ELSE l
    [] l.state = "LATCHED" ->
         IF safeMillisElapsed(l.latch_start_time, t) >= latch_duration_ms
           THEN IF trigger_event
                  THEN [state |-> "LATCHED", latch_start_time |-> t]
                  ELSE [l EXCEPT !.state = "IDLE"]
           ELSE l

\* TriggerLatch::update: the latch after the call made at millis() = t.
LatchUpdate(l, trigger_event, t) ==
  CASE l.state = "IDLE" ->
         IF trigger_event
           THEN [state |-> "LATCHED", latch_start_time |-> t]
           ELSE l
    [] l.state = "LATCHED" ->
         IF safeMillisElapsed(l.latch_start_time, t) >= latch_duration_ms
           THEN [l EXCEPT !.state = "IDLE"]
           ELSE l

\* return (state == LATCHED)
LatchOutput(l) == l.state = "LATCHED"

\* A debouncer that does not restart its timer on a raw change (mutant).
DebouncerUpdate_nochange(d, raw_state, t) ==
  LET d1 == [d EXCEPT !.last_raw_state = raw_state]
  IN  IF raw_state /\ ~d1.current_state
         /\ safeMillisElapsed(d1.last_change_time, t) >= debounce_on_ms
        THEN [d1 EXCEPT !.current_state = TRUE, !.last_state_time = t]
        ELSE IF ~raw_state /\ d1.current_state
                /\ safeMillisElapsed(d1.last_change_time, t) >= debounce_off_ms
                /\ safeMillisElapsed(d1.last_state_time, t) >= min_pulse_ms
          THEN [d1 EXCEPT !.current_state = FALSE, !.last_state_time = t]
          ELSE d1

\* A debouncer whose on-delay comparison is one millisecond late (mutant).
DebouncerUpdate_late(d, raw_state, t) ==
  LET d1 == IF raw_state # d.last_raw_state
              THEN [d EXCEPT !.last_change_time = t, !.last_raw_state = raw_state]
              ELSE d
  IN  IF raw_state /\ ~d1.current_state
         /\ safeMillisElapsed(d1.last_change_time, t) > debounce_on_ms
        THEN [d1 EXCEPT !.current_state = TRUE, !.last_state_time = t]
        ELSE IF ~raw_state /\ d1.current_state
                /\ safeMillisElapsed(d1.last_change_time, t) >= debounce_off_ms
                /\ safeMillisElapsed(d1.last_state_time, t) >= min_pulse_ms
          THEN [d1 EXCEPT !.current_state = FALSE, !.last_state_time = t]
          ELSE d1

\* A debouncer whose off-delay is only the minimum pulse width (mutant).
DebouncerUpdate_shortoff(d, raw_state, t) ==
  LET d1 == IF raw_state # d.last_raw_state
              THEN [d EXCEPT !.last_change_time = t, !.last_raw_state = raw_state]
              ELSE d
  IN  IF raw_state /\ ~d1.current_state
         /\ safeMillisElapsed(d1.last_change_time, t) >= debounce_on_ms
        THEN [d1 EXCEPT !.current_state = TRUE, !.last_state_time = t]
        ELSE IF ~raw_state /\ d1.current_state
                /\ safeMillisElapsed(d1.last_change_time, t) >= min_pulse_ms
          THEN [d1 EXCEPT !.current_state = FALSE, !.last_state_time = t]
          ELSE d1

\* TriggerDebouncer::update: the debouncer after the call made at millis() = t.
DebouncerUpdate(d, raw_state, t) ==
  LET d1 == IF raw_state # d.last_raw_state
              THEN [d EXCEPT !.last_change_time = t, !.last_raw_state = raw_state]
              ELSE d
  IN  IF raw_state /\ ~d1.current_state
         /\ safeMillisElapsed(d1.last_change_time, t) >= debounce_on_ms
        THEN [d1 EXCEPT !.current_state = TRUE, !.last_state_time = t]
        ELSE IF ~raw_state /\ d1.current_state
                /\ safeMillisElapsed(d1.last_change_time, t) >= debounce_off_ms
                /\ safeMillisElapsed(d1.last_state_time, t) >= min_pulse_ms
          THEN [d1 EXCEPT !.current_state = FALSE, !.last_state_time = t]
          ELSE d1

\* return current_state
DebouncerOutput(d) == d.current_state

-----------------------------------------------------------------------------
(* Shared status block and configuration *)

SwitchCodes == 0..7

MIN_DISTANCE_CM == 7
MAX_DISTANCE_CM == 1200
MIN_STRENGTH_THRESHOLD == 200
FRAME_TIMEOUT_US == 3000
FRAME_SYNC_BYTE1 == 89
FRAME_SYNC_BYTE2 == 89

ErrorFlags == {"COMM_TIMEOUT", "BUFFER_OVERFLOW", "LIDAR_INIT_FAILED",
               "BUFFER_WARNING", "BUFFER_CRITICAL", "FRAME_CORRUPTION",
               "VELOCITY_CALC_ERROR", "CONFIG_ERROR"}

\* A velocity in cm/s is a float in the firmware; here it is the exact
\* fraction num/den (den > 0), so that values between two integers exist.
Rat(n, d) == [num |-> n, den |-> d]
RatGE(v, k) == v.num >= k * v.den
RatLE(v, k) == v.num <= k * v.den

\* globals.cpp: CoreComm core_comm = { ... }
CoreCommInit ==
  [lidar_initialized |-> FALSE, core1_ready |-> FALSE, enable_debug |-> FALSE,
   trigger_output |-> FALSE, config_mode_active |-> FALSE, switch_code |-> 0,
   error_flags |-> {}, frames_received |-> 0, frames_processed |-> 0,
   dropped_frames |-> 0, last_frame_time |-> 0, velocity |-> Rat(0, 1),
   distance |-> 0, strength |-> 0, recovery_attempts |-> 0]

\* storage.cpp: loadDefaultConfig
DefaultConfig ==
  [distance_thresholds |->
     [i \in SwitchCodes |-> CASE i = 0 -> 50  [] i = 1 -> 100 [] i = 2 -> 200
                              [] i = 3 -> 300 [] i = 4 -> 400 [] i = 5 -> 500
                              [] i = 6 -> 600 [] OTHER -> 700],
   velocity_min_thresholds |-> [i \in SwitchCodes |-> 0 - 2200],
   velocity_max_thresholds |-> [i \in SwitchCodes |-> 0 - 250],
   trigger_rules |->
     [i \in SwitchCodes |-> CASE i = 0 -> <<0, 0, 0, 1>> [] i = 1 -> <<0, 0, 1, 1>>
                              [] i = 2 -> <<0, 1, 0, 1>> [] i = 3 -> <<0, 1, 1, 1>>
                              [] i = 4 -> <<1, 0, 0, 1>> [] i = 5 -> <<1, 0, 1, 0>>
                              [] i = 6 -> <<1, 1, 0, 0>> [] OTHER -> <<1, 1, 1, 0>>],
   use_velocity_trigger |-> TRUE,
   enable_debug |-> FALSE,
   checksum |-> 0]

\* raw_trigger with a strict distance comparison (mutant)
RawTrigger_strict(cfg, sw, fr, v) ==
  /\ fr.distance < cfg.distance_thresholds[sw]
  /\ \/ ~cfg.use_velocity_trigger
     \/ /\ RatGE(v, cfg.velocity_min_thresholds[sw])
        /\ RatLE(v, cfg.velocity_max_thresholds[sw])

\* processIncomingFrames: distance_ok && velocity_ok
RawTrigger(cfg, sw, fr, v) ==
  LET distance_ok == fr.distance <= cfg.distance_thresholds[sw]
      velocity_ok == \/ ~cfg.use_velocity_trigger
                     \/ /\ RatGE(v, cfg.velocity_min_thresholds[sw])
                        /\ RatLE(v, cfg.velocity_max_thresholds[sw])
  IN  distance_ok /\ velocity_ok

-----------------------------------------------------------------------------
(* Call-history observer for the debouncer and latch properties; it reads  *)
(* only the arguments, the return values and the call times.               *)
(* chg: time of the call at which the raw sample last changed.             *)
(* on_at: time of the call at which the debounced output rose, while it    *)
(*   is true.                                                              *)
(* phase, first_true: whether the samples so far are those of one raw      *)
(*   pulse lasting at most debounce_on_ms - 1 ms ("post29": it lasted      *)
(*   exactly that long and is over).                                       *)
(* tick_on, tick_t0: raw has been true on every 1 ms tick since tick_t0,   *)
(*   where the debounced output was false.                                 *)
(* latched_at: time of the call at which the latch output last rose.       *)
(* boot: millis() at the first step.                                       *)
(* t_first: time at which the first frame was processed.                   *)

NoTime == 0 - 1

ObsInit == [chg |-> NoTime, on_at |-> NoTime,
            phase |-> "pre", first_true |-> NoTime, last_true |-> NoTime,
            tick_on |-> FALSE, tick_t0 |-> NoTime,
            latched_at |-> NoTime, boot |-> 0, t_first |-> NoTime]

PulseLen == debounce_on_ms - 1

NextPhase(o, raw, t) ==
  CASE o.phase = "pre"  -> IF raw THEN "in" ELSE "pre"
    [] o.phase = "in"   -> IF raw
                             THEN IF Elapsed32(o.first_true, t) <= PulseLen
                                    THEN "in" ELSE "bad"
                             ELSE IF Elapsed32(o.first_true, o.last_true) = PulseLen
                                    THEN "post29" ELSE "post"
    [] o.phase \in {"post", "post29"} -> IF raw THEN "bad" ELSE o.phase
    [] OTHER            -> "bad"

ObsDebounce(o, prev_raw, prev_out, raw, out, dt, t) ==
  LET ph   == NextPhase(o, raw, t)
      tick == IF raw /\ ~prev_raw THEN ~prev_out
              ELSE o.tick_on /\ raw /\ dt = 1
  IN [o EXCEPT
     !.chg        = IF raw # prev_raw THEN t ELSE @,
     !.on_at      = IF ~out THEN NoTime ELSE IF ~prev_out THEN t ELSE @,
     !.phase      = ph,
     !.first_true = IF ph # "in" THEN NoTime
                    ELSE IF o.phase = "pre" THEN t ELSE @,
     !.last_true  = IF ph # "in" THEN NoTime ELSE t,
     !.tick_on    = tick,
     !.tick_t0    = IF ~tick THEN NoTime
                    ELSE IF raw /\ ~prev_raw THEN t ELSE @]

ObsLatch(o, prev_out, out, t) ==
  [o EXCEPT !.latched_at = IF out /\ ~prev_out THEN t ELSE @]

-----------------------------------------------------------------------------
(* Bounds of the exploration *)

\* millis() at the first step: just after boot, and shortly before the
\* timer wraps.
WrapLead == 40
StartTimes == {0, UINT32_MOD - WrapLead}

MaxTickTime == 64          \* ms explored by SpecTick after its start
MaxDebounceCalls == 5      \* TriggerDebouncer::update calls in SpecDebounce
MaxLatchCalls == 6         \* TriggerLatch::update calls in SpecLatch

\* gaps between two debouncer calls in SpecTick, ms
TickSteps == {0, 1}

\* gaps between two debouncer calls in SpecDebounce, ms
DebounceSteps == {0, 1, debounce_on_ms - 1, debounce_on_ms,
                  debounce_off_ms - 1, debounce_off_ms}

\* gaps between two latch calls, ms
LatchSteps == {0, 1, latch_duration_ms - 2, latch_duration_ms - 1,
               latch_duration_ms}

-----------------------------------------------------------------------------
(* Direct calls of the two classes, as processIncomingFrames makes them *)

TrigInit ==
  /\ now \in StartTimes
  /\ deb = DebouncerInit
  /\ latch = LatchInit
  /\ deb_ret = FALSE
  /\ latch_ret = FALSE
  /\ call_in = FALSE
  /\ calls = 0
  /\ obs = [ObsInit EXCEPT !.boot = now]

\* trigger_debouncer.update(raw) at millis() = now + dt
DebounceCall(raw, dt) ==
  LET t  == (now + dt) % UINT32_MOD
      d2 == DebouncerUpdate(deb, raw, t)
  IN  /\ now' = t
      /\ deb' = d2
      /\ deb_ret' = DebouncerOutput(d2)
      /\ call_in' = raw
      /\ obs' = ObsDebounce(obs, call_in, deb_ret, raw, DebouncerOutput(d2), dt, t)
      /\ UNCHANGED <<latch, latch_ret>>

\* trigger_latch.update(ev) at millis() = now + dt
LatchCall(ev, dt) ==
  LET t  == (now + dt) % UINT32_MOD
      l2 == LatchUpdate(latch, ev, t)
  IN  /\ now' = t
      /\ latch' = l2
      /\ latch_ret' = LatchOutput(l2)
      /\ call_in' = ev
      /\ calls' = calls + 1
      /\ obs' = ObsLatch(obs, latch_ret, LatchOutput(l2), t)
      /\ UNCHANGED <<deb, deb_ret>>

-----------------------------------------------------------------------------
(* The frame queue shared by the two cores (globals.cpp) *)

\* Capacity of the queue.  The firmware builds with 32 (or 24) and the
\* thresholds 24 and 28 (18 and 21); the model explores a smaller ring, with
\* the two fill thresholds at the same fractions (3/4 and 7/8) of the
\* capacity, the warning threshold rounded down and the critical one up, so
\* that they stay apart as in the firmware.
FRAME_BUFFER_SIZE == 3
BUFFER_WARNING_THRESHOLD == (3 * FRAME_BUFFER_SIZE) \div 4
BUFFER_CRITICAL_THRESHOLD == (7 * FRAME_BUFFER_SIZE + 7) \div 8

MaxPushes == 5     \* atomicBufferPush calls explored
MaxFlushes == 1    \* recovery buffer flushes explored

Cores == {"c0", "c1"}
Free == "free"

\* A zero-initialised LidarFrame (frame_buffer is a global array).
NoFrame == [distance |-> 0, strength |-> 0, temperature |-> 0,
            timestamp |-> 0, valid |-> FALSE]

LocInit == [frame |-> NoFrame, success |-> FALSE,
            should_set_warning |-> FALSE, should_set_critical |-> FALSE,
            should_clear_warnings |-> FALSE, current_count |-> 0,
            count |-> 0,
            todo |-> <<>>, ret |-> "idle", after |-> "idle"]

QueueInit ==
  /\ frame_buffer = [i \in 0..(FRAME_BUFFER_SIZE - 1) |-> NoFrame]
  /\ buffer_head = 0
  /\ buffer_tail = 0
  /\ buffer_count = 0
  /\ mutex = [buffer |-> Free, comm |-> Free, perf |-> Free, serial |-> Free]
  /\ pc = [c \in Cores |-> "idle"]
  /\ loc = [c \in Cores |-> LocInit]
  /\ perf_metrics = [max_buffer_utilization |-> 0, velocity_calc_errors |-> 0,
                     frame_corruption_count |-> 0, recovery_attempt_count |-> 0]
  /\ qobs = [pushed |-> <<>>, popped |-> <<>>, attempts |-> 0, flushes |-> 0,
             dropped_at_call |-> 0, received_at_call |-> 0]

\* mutex_enter_blocking(m) by core c, which goes on at position next
Enter(c, m, at, next) ==
  /\ pc[c] = at
  /\ mutex[m] = Free
  /\ mutex' = [mutex EXCEPT ![m] = c]
  /\ pc' = [pc EXCEPT ![c] = next]

\* A core that does not wait for buffer_mutex (mutant).
EnterBuffer_nolock(c, at, next) ==
  /\ pc[c] = at
  /\ mutex' = [mutex EXCEPT !.buffer = IF @ = Free THEN c ELSE @]
  /\ pc' = [pc EXCEPT ![c] = next]

\* mutex_enter_blocking(&buffer_mutex)
EnterBuffer(c, at, next) == Enter(c, "buffer", at, next)

\* mutex_exit(&buffer_mutex); a core releases only what it holds
ExitBuffer(c) == mutex' = [mutex EXCEPT !.buffer = IF @ = c THEN Free ELSE @]

(* safeSetErrorFlag(flag, set), for the calls queued in loc[c].todo *)

SetFlagEnter(c) ==
  /\ Enter(c, "comm", "sf_enter", "sf_body")
  /\ UNCHANGED <<loc, commVars, bufVars, perf_metrics, qobs>>

SetFlagBody(c) ==
  LET call    == Head(loc[c].todo)
      flag    == call[1]
      set     == call[2]
      was_set == flag \in core_comm.error_flags
  IN  /\ pc[c] = "sf_body"
      /\ core_comm' = [core_comm EXCEPT !.error_flags =
                         IF set THEN @ \cup {flag} ELSE @ \ {flag}]
      /\ pc' = [pc EXCEPT ![c] = IF set /\ ~was_set THEN "sf_perf" ELSE "sf_exit"]
      /\ UNCHANGED <<loc, mutex, bufVars, perf_metrics, qobs>>

\* mutex_enter_blocking(&perf_mutex), with comm_mutex held
SetFlagPerf(c) ==
  /\ Enter(c, "perf", "sf_perf", "sf_perf_exit")
  /\ UNCHANGED <<loc, commVars, bufVars, perf_metrics, qobs>>

\* the counter of the flag that was newly set; mutex_exit(&perf_mutex)
SetFlagPerfExit(c) ==
  LET flag == Head(loc[c].todo)[1]
  IN  /\ pc[c] = "sf_perf_exit"
      /\ perf_metrics' =
           [perf_metrics EXCEPT
              !.frame_corruption_count =
                 IF flag = "FRAME_CORRUPTION" THEN @ + 1 ELSE @,
              !.velocity_calc_errors =
                 IF flag = "VELOCITY_CALC_ERROR" THEN @ + 1 ELSE @]
      /\ mutex' = [mutex EXCEPT !.perf = Free]
      /\ pc' = [pc EXCEPT ![c] = "sf_exit"]
      /\ UNCHANGED <<loc, commVars, bufVars, qobs>>

SetFlagExit(c) ==
  LET rest == Tail(loc[c].todo)
  IN  /\ pc[c] = "sf_exit"
      /\ mutex' = [mutex EXCEPT !.comm = Free]
      /\ loc' = [loc EXCEPT ![c].todo = rest]
      /\ pc' = [pc EXCEPT ![c] = IF rest = <<>> THEN loc[c].ret ELSE "sf_enter"]
      /\ UNCHANGED <<commVars, bufVars, perf_metrics, qobs>>

(* atomicBufferPush(frame), called by Core 0 *)

\* Core 0 has a validated frame and calls atomicBufferPush; the frames are
\* told apart by their distance and their timestamp
PushCall ==
  /\ pc["c0"] = "idle"
  /\ qobs.attempts < MaxPushes
  /\ qobs' = [qobs EXCEPT !.attempts = @ + 1,
                          !.dropped_at_call = core_comm.dropped_frames,
                          !.received_at_call = core_comm.frames_received]
  /\ loc' = [loc EXCEPT !["c0"] =
               [LocInit EXCEPT !.frame =
                  [distance |-> MIN_DISTANCE_CM + qobs.attempts,
                   strength |-> MIN_STRENGTH_THRESHOLD,
                   temperature |-> 0,
                   timestamp |-> qobs.attempts + 1,
                   valid |-> TRUE]]]
  /\ pc' = [pc EXCEPT !["c0"] = "push_enter"]
  /\ UNCHANGED <<mutex, commVars, bufVars, perf_metrics>>

PushEnter ==
  /\ EnterBuffer("c0", "push_enter", "push_check")
  /\ UNCHANGED <<loc, commVars, bufVars, perf_metrics, qobs>>

\* A push that does not look at the fill level (mutant).
PushCheck_nofull ==
  /\ pc["c0"] = "push_check"
  /\ pc' = [pc EXCEPT !["c0"] = "push_copy1"]
  /\ UNCHANGED <<loc, mutex, commVars, bufVars, perf_metrics, qobs>>

\* if (buffer_count < FRAME_BUFFER_SIZE)
PushCheck ==
  /\ pc["c0"] = "push_check"
  /\ pc' = [pc EXCEPT !["c0"] = IF buffer_count < FRAME_BUFFER_SIZE
                                  THEN "push_copy1" ELSE "push_exit"]
  /\ UNCHANGED <<loc, mutex, commVars, bufVars, perf_metrics, qobs>>

\* frame_buffer[buffer_head] = frame, first part
PushCopy1 ==
  /\ pc["c0"] = "push_copy1"
  /\ frame_buffer' = [frame_buffer EXCEPT
                        ![buffer_head].distance = loc["c0"].frame.distance,
                        ![buffer_head].strength = loc["c0"].frame.strength,
                        ![buffer_head].temperature = loc["c0"].frame.temperature]
  /\ pc' = [pc EXCEPT !["c0"] = "push_copy2"]
  /\ UNCHANGED <<loc, mutex, commVars, buffer_head, buffer_tail, buffer_count,
                 perf_metrics, qobs>>

\* frame_buffer[buffer_head] = frame, second part
PushCopy2 ==
  /\ pc["c0"] = "push_copy2"
  /\ frame_buffer' = [frame_buffer EXCEPT
                        ![buffer_head].timestamp = loc["c0"].frame.timestamp,
                        ![buffer_head].valid = loc["c0"].frame.valid]
  /\ pc' = [pc EXCEPT !["c0"] = "push_head"]
  /\ UNCHANGED <<loc, mutex, commVars, buffer_head, buffer_tail, buffer_count,
                 perf_metrics, qobs>>

\* buffer_head = (buffer_head + 1) % FRAME_BUFFER_SIZE
PushHead ==
  /\ pc["c0"] = "push_head"
  /\ buffer_head' = (buffer_head + 1) % FRAME_BUFFER_SIZE
  /\ pc' = [pc EXCEPT !["c0"] = "push_count_load"]
  /\ UNCHANGED <<loc, mutex, commVars, frame_buffer, buffer_tail, buffer_count,
                 perf_metrics, qobs>>

\* buffer_count++ : the volatile counter is loaded ...
PushCountLoad ==
  /\ pc["c0"] = "push_count_load"
  /\ loc' = [loc EXCEPT !["c0"].count = buffer_count]
  /\ pc' = [pc EXCEPT !["c0"] = "push_count_store"]
  /\ UNCHANGED <<mutex, commVars, bufVars, perf_metrics, qobs>>

\* ... and stored back incremented; success = true; current_count and the
\* three should_* decisions are taken from the new count
PushCountStore ==
  LET n == (loc["c0"].count + 1) % 256
  IN  /\ pc["c0"] = "push_count_store"
      /\ buffer_count' = n
      /\ loc' = [loc EXCEPT !["c0"].success = TRUE,
                            !["c0"].current_count = n,
                            !["c0"].should_set_warning =
                               (n >= BUFFER_WARNING_THRESHOLD),
                            !["c0"].should_set_critical =
                               (n >= BUFFER_CRITICAL_THRESHOLD),
                            !["c0"].should_clear_warnings =
                               (n < BUFFER_WARNING_THRESHOLD)]
      /\ qobs' = [qobs EXCEPT !.pushed = Append(@, loc["c0"].frame)]
      /\ pc' = [pc EXCEPT !["c0"] = "push_exit"]
      /\ UNCHANGED <<mutex, commVars, frame_buffer, buffer_head, buffer_tail,
                     perf_metrics>>

\* mutex_exit(&buffer_mutex); if (success) ... else safeIncrementDroppedFrames()
PushExit ==
  /\ pc["c0"] = "push_exit"
  /\ ExitBuffer("c0")
  /\ pc' = [pc EXCEPT !["c0"] = IF loc["c0"].success THEN "push_perf"
                                                     ELSE "drop_enter"]
  /\ UNCHANGED <<loc, commVars, bufVars, perf_metrics, qobs>>

PushPerfEnter ==
  /\ Enter("c0", "perf", "push_perf", "push_perf_body")
  /\ UNCHANGED <<loc, commVars, bufVars, perf_metrics, qobs>>

\* max_buffer_utilization update; mutex_exit(&perf_mutex)
PushPerfBody ==
  /\ pc["c0"] = "push_perf_body"
  /\ perf_metrics' = [perf_metrics EXCEPT !.max_buffer_utilization =
                        IF loc["c0"].current_count > @
                          THEN loc["c0"].current_count ELSE @]
  /\ mutex' = [mutex EXCEPT !.perf = Free]
  /\ pc' = [pc EXCEPT !["c0"] = "recv_enter"]
  /\ UNCHANGED <<loc, commVars, bufVars, qobs>>

\* safeIncrementFramesReceived
RecvEnter ==
  /\ Enter("c0", "comm", "recv_enter", "recv_body")
  /\ UNCHANGED <<loc, commVars, bufVars, perf_metrics, qobs>>

\* frames_received++, last_frame_time = millis(), mutex_exit; then the
\* warning flags are set or cleared
RecvBody ==
  LET l    == loc["c0"]
      todo == IF l.should_clear_warnings
                THEN << <<"BUFFER_WARNING", FALSE>>, <<"BUFFER_CRITICAL", FALSE>> >>
                ELSE IF l.should_set_warning
                  THEN IF l.should_set_critical
                         THEN << <<"BUFFER_WARNING", TRUE>>,
                                 <<"BUFFER_CRITICAL", TRUE>> >>
                         ELSE << <<"BUFFER_WARNING", TRUE>> >>
                  ELSE <<>>
  IN  /\ pc["c0"] = "recv_body"
      /\ core_comm' = [core_comm EXCEPT !.frames_received = @ + 1,
                                        !.last_frame_time = now]
      /\ mutex' = [mutex EXCEPT !.comm = Free]
      /\ loc' = [loc EXCEPT !["c0"].todo = todo, !["c0"].ret = l.after]
      /\ pc' = [pc EXCEPT !["c0"] = IF todo = <<>> THEN l.after ELSE "sf_enter"]
      /\ UNCHANGED <<bufVars, perf_metrics, qobs>>

\* safeIncrementDroppedFrames
DropEnter ==
  /\ Enter("c0", "comm", "drop_enter", "drop_body")
  /\ UNCHANGED <<loc, commVars, bufVars, perf_metrics, qobs>>

\* A drop that is not counted (mutant).
DropBody_uncounted ==
  /\ pc["c0"] = "drop_body"
  /\ mutex' = [mutex EXCEPT !.comm = Free]
  /\ loc' = [loc EXCEPT !["c0"].todo = << <<"BUFFER_OVERFLOW", TRUE>> >>,
                        !["c0"].ret = loc["c0"].after]
  /\ pc' = [pc EXCEPT !["c0"] = "sf_enter"]
  /\ UNCHANGED <<core_comm, bufVars, perf_metrics, qobs>>

\* dropped_frames++, mutex_exit; safeSetErrorFlag(ERROR_FLAG_BUFFER_OVERFLOW, true)
DropBody ==
  /\ pc["c0"] = "drop_body"
  /\ core_comm' = [core_comm EXCEPT !.dropped_frames = @ + 1]
  /\ mutex' = [mutex EXCEPT !.comm = Free]
  /\ loc' = [loc EXCEPT !["c0"].todo = << <<"BUFFER_OVERFLOW", TRUE>> >>,
                        !["c0"].ret = loc["c0"].after]
  /\ pc' = [pc EXCEPT !["c0"] = "sf_enter"]
  /\ UNCHANGED <<bufVars, perf_metrics, qobs>>

(* attemptRecovery(RECOVERY_LEVEL_BUFFER_FLUSH): the queue flush, by Core 0 *)

FlushCall ==
  /\ pc["c0"] = "idle"
  /\ qobs.flushes < MaxFlushes
  /\ qobs' = [qobs EXCEPT !.flushes = @ + 1]
  /\ pc' = [pc EXCEPT !["c0"] = "flush_enter"]
  /\ UNCHANGED <<loc, mutex, commVars, bufVars, perf_metrics>>

FlushEnter ==
  /\ EnterBuffer("c0", "flush_enter", "flush_body")
  /\ UNCHANGED <<loc, commVars, bufVars, perf_metrics, qobs>>

\* buffer_head = buffer_tail = buffer_count = 0 : the stores are made from
\* the right, buffer_count first
FlushCount ==
  /\ pc["c0"] = "flush_body"
  /\ buffer_count' = 0
  /\ pc' = [pc EXCEPT !["c0"] = "flush_tail"]
  /\ UNCHANGED <<loc, mutex, commVars, frame_buffer, buffer_head, buffer_tail,
                 perf_metrics, qobs>>

FlushTail ==
  /\ pc["c0"] = "flush_tail"
  /\ buffer_tail' = 0
  /\ pc' = [pc EXCEPT !["c0"] = "flush_head"]
  /\ UNCHANGED <<loc, mutex, commVars, frame_buffer, buffer_head, buffer_count,
                 perf_metrics, qobs>>

\* the last store, then mutex_exit(&buffer_mutex)
FlushHead ==
  /\ pc["c0"] = "flush_head"
  /\ buffer_head' = 0
  /\ ExitBuffer("c0")
  /\ pc' = [pc EXCEPT !["c0"] = "idle"]
  /\ UNCHANGED <<loc, commVars, frame_buffer, buffer_tail, buffer_count,
                 perf_metrics, qobs>>

(* atomicBufferPop(frame), called by Core 1 *)

PopCall ==
  /\ pc["c1"] = "idle"
  /\ loc' = [loc EXCEPT !["c1"] = [LocInit EXCEPT !.frame = loc["c1"].frame]]
  /\ pc' = [pc EXCEPT !["c1"] = "pop_enter"]
  /\ UNCHANGED <<mutex, commVars, bufVars, perf_metrics, qobs>>

PopEnter ==
  /\ EnterBuffer("c1", "pop_enter", "pop_check")
  /\ UNCHANGED <<loc, commVars, bufVars, perf_metrics, qobs>>

\* if (buffer_count > 0)
PopCheck ==
  /\ pc["c1"] = "pop_check"
  /\ pc' = [pc EXCEPT !["c1"] = IF buffer_count > 0 THEN "pop_copy1"
                                                    ELSE "pop_exit"]
  /\ UNCHANGED <<loc, mutex, commVars, bufVars, perf_metrics, qobs>>

\* frame = frame_buffer[buffer_tail], first part
PopCopy1 ==
  /\ pc["c1"] = "pop_copy1"
  /\ loc' = [loc EXCEPT
               !["c1"].frame.distance = frame_buffer[buffer_tail].distance,
               !["c1"].frame.strength = frame_buffer[buffer_tail].strength,
               !["c1"].frame.temperature = frame_buffer[buffer_tail].temperature]
  /\ pc' = [pc EXCEPT !["c1"] = "pop_copy2"]
  /\ UNCHANGED <<mutex, commVars, bufVars, perf_metrics, qobs>>

\* frame = frame_buffer[buffer_tail], second part
PopCopy2 ==
  /\ pc["c1"] = "pop_copy2"
  /\ loc' = [loc EXCEPT
               !["c1"].frame.timestamp = frame_buffer[buffer_tail].timestamp,
               !["c1"].frame.valid = frame_buffer[buffer_tail].valid]
  /\ pc' = [pc EXCEPT !["c1"] = "pop_tail"]
  /\ UNCHANGED <<mutex, commVars, bufVars, perf_metrics, qobs>>

\* buffer_tail = (buffer_tail + 1) % FRAME_BUFFER_SIZE
PopTail ==
  /\ pc["c1"] = "pop_tail"
  /\ buffer_tail' = (buffer_tail + 1) % FRAME_BUFFER_SIZE
  /\ pc' = [pc EXCEPT !["c1"] = "pop_count_load"]
  /\ UNCHANGED <<loc, mutex, commVars, frame_buffer, buffer_head, buffer_count,
                 perf_metrics, qobs>>

\* buffer_count-- : the volatile counter is loaded ...
PopCountLoad ==
  /\ pc["c1"] = "pop_count_load"
  /\ loc' = [loc EXCEPT !["c1"].count = buffer_count]
  /\ pc' = [pc EXCEPT !["c1"] = "pop_count_store"]
  /\ UNCHANGED <<mutex, commVars, bufVars, perf_metrics, qobs>>

\* A pop that clears both flags whatever count it leaves (mutant)
PopCountStore_clear ==
  LET n    == (loc["c1"].count + 255) % 256
      todo == << <<"BUFFER_WARNING", FALSE>>, <<"BUFFER_CRITICAL", FALSE>> >>
  IN  /\ pc["c1"] = "pop_count_store"
      /\ buffer_count' = n
      /\ loc' = [loc EXCEPT !["c1"].success = TRUE,
                            !["c1"].todo = todo,
                            !["c1"].ret = "pop_exit"]
      /\ qobs' = [qobs EXCEPT !.popped = Append(@, loc["c1"].frame)]
      /\ pc' = [pc EXCEPT !["c1"] = "sf_enter"]
      /\ UNCHANGED <<mutex, commVars, frame_buffer, buffer_head, buffer_tail,
                     perf_metrics>>

\* ... and stored back decremented (uint8_t); success = true; below the
\* warning threshold both flags are cleared while buffer_mutex is still held
PopCountStore ==
  LET n    == (loc["c1"].count + 255) % 256
      todo == IF n < BUFFER_WARNING_THRESHOLD
                THEN << <<"BUFFER_WARNING", FALSE>>, <<"BUFFER_CRITICAL", FALSE>> >>
                ELSE <<>>
  IN  /\ pc["c1"] = "pop_count_store"
      /\ buffer_count' = n
      /\ loc' = [loc EXCEPT !["c1"].success = TRUE,
                            !["c1"].todo = todo,
                            !["c1"].ret = "pop_exit"]
      /\ qobs' = [qobs EXCEPT !.popped = Append(@, loc["c1"].frame)]
      /\ pc' = [pc EXCEPT !["c1"] = IF todo = <<>> THEN "pop_exit" ELSE "sf_enter"]
      /\ UNCHANGED <<mutex, commVars, frame_buffer, buffer_head, buffer_tail,
                     perf_metrics>>

\* mutex_exit(&buffer_mutex); if (success) safeIncrementFramesProcessed()
PopExit ==
  /\ pc["c1"] = "pop_exit"
  /\ ExitBuffer("c1")
  /\ pc' = [pc EXCEPT !["c1"] = IF loc["c1"].success THEN "proc_enter" ELSE "idle"]
  /\ UNCHANGED <<loc, commVars, bufVars, perf_metrics, qobs>>

ProcEnter ==
  /\ Enter("c1", "comm", "proc_enter", "proc_body")
  /\ UNCHANGED <<loc, commVars, bufVars, perf_metrics, qobs>>

\* frames_processed++, mutex_exit(&comm_mutex)
ProcBody ==
  /\ pc["c1"] = "proc_body"
  /\ core_comm' = [core_comm EXCEPT !.frames_processed = @ + 1]
  /\ mutex' = [mutex EXCEPT !.comm = Free]
  /\ pc' = [pc EXCEPT !["c1"] = "idle"]
  /\ UNCHANGED <<loc, bufVars, perf_metrics, qobs>>

-----------------------------------------------------------------------------
(* The sensor link and processLidarSerial (core0_handling.cpp).  Serial      *)
(* diagnostics, and the timestamps that only throttle them in debug mode,   *)
(* are not part of the model.                                               *)

MaxSent == 4          \* sensor transmissions explored

Min(a, b) == IF a <= b THEN a ELSE b

\* micros(): the same clock as millis(), in microseconds
MicrosMod == UINT32_MOD * 1000
micros == (now * 1000 + now_us) % MicrosMod

\* globals.cpp: safeMicrosElapsed
safeMicrosElapsed(start, current) ==
  IF current >= start THEN current - start
                      ELSE ((MicrosMod - 1) - start) + current + 1

Lo(x) == x % 256
Hi(x) == (x \div 256) % 256

\* uint8_t checksum = 0; for (i = 0; i < n; i++) checksum += frame_data[i]
RECURSIVE Checksum8(_, _)
Checksum8(fd, n) == IF n = 0 THEN 0 ELSE (Checksum8(fd, n - 1) + fd[n]) % 256

\* frame_data[lo] | (frame_data[hi] << 8), stored in a uint16_t
Word16(fd, lo, hi) == (fd[lo] + fd[hi] * 256) % 65536

\* A range check that lets the strength through unchecked (mutant).
FrameInRange_nostrength(f, min_strength) ==
  f.distance >= MIN_DISTANCE_CM /\ f.distance <= MAX_DISTANCE_CM

\* new_frame.distance >= MIN_DISTANCE_CM && new_frame.distance <= MAX_DISTANCE_CM
\*   && new_frame.strength >= RUNTIME_MIN_STRENGTH_THRESHOLD
FrameInRange(f, min_strength) ==
  /\ f.distance >= MIN_DISTANCE_CM
  /\ f.distance <= MAX_DISTANCE_CM
  /\ f.strength >= min_strength

\* The nine bytes the sensor sends for one measurement; ok says whether the
\* last byte is the sum of the first eight.
SensorFrame(d, st, temp, ok) ==
  LET b == <<FRAME_SYNC_BYTE1, FRAME_SYNC_BYTE2, Lo(d), Hi(d), Lo(st), Hi(st),
             Lo(temp), Hi(temp)>>
      c == Checksum8(b, 8)
  IN  Append(b, IF ok THEN c ELSE (c + 1) % 256)

\* What the sensor may put on the wire: measurements at the edges of the
\* accepted ranges, a measurement with a wrong checksum, and a stray byte.
Transmissions ==
  {SensorFrame(d, MIN_STRENGTH_THRESHOLD, 0, TRUE) :
     d \in {MIN_DISTANCE_CM - 1, MIN_DISTANCE_CM, MAX_DISTANCE_CM,
            MAX_DISTANCE_CM + 1}}
  \cup {SensorFrame(MIN_DISTANCE_CM, MIN_STRENGTH_THRESHOLD - 1, 0, TRUE),
        SensorFrame(MAX_DISTANCE_CM, MIN_STRENGTH_THRESHOLD, 0, FALSE),
        <<0>>}

\* Bytes that may arrive together.
ArriveChunks == {5, 9}

SerInit ==
  [sync_state |-> 0, frame_data |-> [i \in 1..9 |-> 0], frame_index |-> 0,
   frame_start_time |-> 0, valid_frames |-> 0, invalid_frames |-> 0,
   last_health_check |-> 0, consecutive_sync_failures |-> 0,
   consecutive_good_frames |-> 0, consecutive_good_frames_static |-> 0,
   last_overflow_report |-> 0, last_perf_update |-> 0, current_time |-> 0]

FrameInit ==
  /\ now_us = 0
  /\ wire = <<>>
  /\ rx = <<>>
  /\ ser = SerInit
  /\ timing_info = [adaptive_timeout_us |-> FRAME_TIMEOUT_US,
                    frames_per_second |-> 0]
  /\ fobs = [sent |-> 0, collected |-> <<>>, decided |-> FALSE,
             offered |-> FALSE]

\* The sensor starts sending b.  processLidarSerial reads the receive buffer
\* in its first step only, so bytes that arrive while Core 0 is inside a call
\* are taken to arrive right after that call.
Transmit(b) ==
  /\ pc["c0"] = "idle"
  /\ wire = <<>>
  /\ fobs.sent < MaxSent
  /\ wire' = b
  /\ fobs' = [fobs EXCEPT !.sent = @ + 1]
  /\ UNCHANGED <<now, now_us, rx, ser, timing_info, pc, loc, mutex, core_comm>>

\* The next k bytes on the wire reach the receive buffer.
Arrive(k) ==
  LET n == Min(k, Len(wire))
  IN  /\ pc["c0"] = "idle"
      /\ n >= 1
      /\ rx' = rx \o SubSeq(wire, 1, n)
      /\ wire' = SubSeq(wire, n + 1, Len(wire))
      /\ UNCHANGED <<now, now_us, ser, timing_info, fobs, pc, loc, mutex,
                     core_comm>>

\* if (safeMillisElapsed(last_health_check, current_time) > 10000) ...
\* checkLidarSensorHealth only looks at the stream; last_health_check is set
HealthStep(sr) ==
  IF safeMillisElapsed(sr.last_health_check, sr.current_time) > 10000
    THEN [sr EXCEPT !.last_health_check = sr.current_time]
    ELSE sr

\* "Look for frame sync": one byte is consumed, and a second one if both are
\* sync bytes
SyncStep(sr, buf) ==
  IF sr.sync_state = 0 /\ Len(buf) >= 2
    THEN LET first_byte == Head(buf)
             rest       == Tail(buf)
         IN  IF first_byte = FRAME_SYNC_BYTE1 /\ Head(rest) = FRAME_SYNC_BYTE2
               THEN [ser |-> [sr EXCEPT
                                !.frame_data = [@ EXCEPT ![1] = FRAME_SYNC_BYTE1,
                                                         ![2] = Head(rest)],
                                !.frame_index = 2,
                                !.frame_start_time = micros,
                                !.sync_state = 1,
                                !.consecutive_sync_failures = 0],
                     rx |-> Tail(rest)]
               ELSE [ser |-> [sr EXCEPT !.consecutive_sync_failures =
                                          IF @ + 1 > 1000 THEN 0 ELSE @ + 1],
                     rx |-> rest]
    ELSE [ser |-> sr, rx |-> buf]

\* "Read frame data": bytes are taken until the ninth one is in
ReadStep(sr, buf) ==
  IF sr.sync_state = 1 /\ sr.frame_index < 9 /\ Len(buf) > 0
    THEN LET n  == Min(Len(buf), 9 - sr.frame_index)
             fd == [i \in 1..9 |->
                      IF i > sr.frame_index /\ i <= sr.frame_index + n
                        THEN buf[i - sr.frame_index] ELSE sr.frame_data[i]]
             done == sr.frame_index + n >= 9
         IN  [ser |-> [sr EXCEPT !.frame_data = fd,
                                 !.frame_index = @ + n,
                                 !.sync_state = IF done THEN 0 ELSE 1],
              rx |-> SubSeq(buf, n + 1, Len(buf)),
              complete |-> done]
    ELSE [ser |-> sr, rx |-> buf, complete |-> FALSE]

\* The timeout taken from the frame rate as it comes (mutant).
AdaptiveTimeout_noclamp(observed_frame_rate) ==
  IF observed_frame_rate > 0
    THEN 3000000 \div observed_frame_rate
    ELSE FRAME_TIMEOUT_US

\* globals.cpp: updateAdaptiveTimeout, the value it stores
AdaptiveTimeout(observed_frame_rate) ==
  IF observed_frame_rate > 0
    THEN LET t == 3000000 \div observed_frame_rate
         IN  IF t < 1000 THEN 1000 ELSE IF t > 10000 THEN 10000 ELSE t
    ELSE FRAME_TIMEOUT_US

\* The tail of the call without the frame timeout (mutant).
TailStep_notimeout(sr, ti) ==
  LET total_frames == sr.valid_frames + sr.invalid_frames
  IN  IF safeMillisElapsed(sr.last_perf_update, sr.current_time) > 1000
        THEN IF total_frames > 0
               THEN [ser |-> [sr EXCEPT !.valid_frames = 0, !.invalid_frames = 0,
                                        !.last_perf_update = sr.current_time],
                     timing |-> [ti EXCEPT
                                   !.frames_per_second = total_frames,
                                   !.adaptive_timeout_us =
                                      AdaptiveTimeout(total_frames)]]
               ELSE [ser |-> [sr EXCEPT !.last_perf_update = sr.current_time],
                     timing |-> ti]
        ELSE [ser |-> sr, timing |-> ti]

\* "Handle frame timeout" and "Update performance metrics"
TailStep(sr, ti) ==
  LET s1 == IF sr.sync_state > 0
               /\ safeMicrosElapsed(sr.frame_start_time, micros)
                    > ti.adaptive_timeout_us
              THEN [sr EXCEPT !.sync_state = 0] ELSE sr
      total_frames == s1.valid_frames + s1.invalid_frames
  IN  IF safeMillisElapsed(s1.last_perf_update, s1.current_time) > 1000
        THEN IF total_frames > 0
               THEN [ser |-> [s1 EXCEPT !.valid_frames = 0, !.invalid_frames = 0,
                                        !.last_perf_update = s1.current_time],
                     timing |-> [ti EXCEPT
                                   !.frames_per_second = total_frames,
                                   !.adaptive_timeout_us =
                                      AdaptiveTimeout(total_frames)]]
               ELSE [ser |-> [s1 EXCEPT !.last_perf_update = s1.current_time],
                     timing |-> ti]
        ELSE [ser |-> s1, timing |-> ti]

\* The LidarFrame parsed from the nine bytes.
ParseFrame(fd) ==
  [distance |-> Word16(fd, 3, 4), strength |-> Word16(fd, 5, 6),
   temperature |-> Word16(fd, 7, 8), timestamp |-> 0, valid |-> FALSE]

\* processLidarSerial from its entry (loop0_handler calls it once Core 1 is
\* ready and Core 0 is in CORE0_READY) to the first call that can block: with no complete frame it runs to
\* its end; with a complete frame the checksum decides what follows.
LidarSerial ==
  LET s0 == HealthStep([ser EXCEPT !.current_time = now])
      sy == SyncStep(s0, rx)
      rd == ReadStep(sy.ser, sy.rx)
      good == Checksum8(rd.ser.frame_data, 8) = rd.ser.frame_data[9]
      tl == TailStep(rd.ser, timing_info)
  IN  /\ pc["c0"] = "idle"
      /\ core_comm.core1_ready
      /\ core0_state = "CORE0_READY"
      /\ rx' = rd.rx
      /\ IF rd.complete
           THEN /\ ser' = IF good THEN rd.ser
                          ELSE [rd.ser EXCEPT !.invalid_frames = @ + 1,
                                              !.consecutive_good_frames_static = 0]
                /\ loc' = [loc EXCEPT !["c0"] =
                             [LocInit EXCEPT
                                !.todo = IF good
                                           THEN << <<"FRAME_CORRUPTION", FALSE>>,
                                                   <<"COMM_TIMEOUT", FALSE>> >>
                                           ELSE << <<"FRAME_CORRUPTION", TRUE>> >>,
                                !.ret = IF good THEN "frame_good"
                                                ELSE "serial_tail"]]
                /\ pc' = [pc EXCEPT !["c0"] = "sf_enter"]
                /\ fobs' = [fobs EXCEPT !.collected = rd.ser.frame_data,
                                        !.decided = ~good,
                                        !.offered = FALSE]
                /\ UNCHANGED timing_info
           ELSE /\ ser' = tl.ser
                /\ timing_info' = tl.timing
                /\ UNCHANGED <<loc, pc, fobs>>
      /\ UNCHANGED <<now, now_us, wire, mutex, core_comm>>

\* consecutive_good_frames++; if (consecutive_good_frames >= 5) ...
FrameGood ==
  /\ pc["c0"] = "frame_good"
  /\ ser' = [ser EXCEPT !.consecutive_good_frames = @ + 1]
  /\ pc' = [pc EXCEPT !["c0"] = IF ser.consecutive_good_frames + 1 >= 5
                                  THEN "reset_enter" ELSE "frame_parse"]
  /\ UNCHANGED <<now, now_us, wire, rx, timing_info, fobs, loc, mutex, core_comm>>

ResetEnter ==
  /\ Enter("c0", "comm", "reset_enter", "reset_body")
  /\ UNCHANGED <<now, now_us, wire, rx, ser, timing_info, fobs, loc, core_comm>>

\* core_comm.recovery_attempts = 0; mutex_exit; consecutive_good_frames = 0
ResetBody ==
  /\ pc["c0"] = "reset_body"
  /\ core_comm' = [core_comm EXCEPT !.recovery_attempts = 0]
  /\ mutex' = [mutex EXCEPT !.comm = Free]
  /\ ser' = [ser EXCEPT !.consecutive_good_frames = 0]
  /\ pc' = [pc EXCEPT !["c0"] = "frame_parse"]
  /\ UNCHANGED <<now, now_us, wire, rx, timing_info, fobs, loc>>

\* "Parse frame data" and "Validate frame data ranges": a frame in range is
\* stamped, marked valid and handed to atomicBufferPush
FrameParse ==
  LET new_frame == ParseFrame(ser.frame_data)
      in_range  == FrameInRange(new_frame, runtimeGlobals.min_strength_threshold)
  IN  /\ pc["c0"] = "frame_parse"
      /\ IF in_range
           THEN /\ ser' = [ser EXCEPT !.valid_frames = @ + 1]
                /\ loc' = [loc EXCEPT !["c0"] =
                             [LocInit EXCEPT
                                !.frame = [new_frame EXCEPT !.timestamp = micros,
                                                            !.valid = TRUE],
                                !.after = "push_done"]]
                /\ pc' = [pc EXCEPT !["c0"] = "push_enter"]
           ELSE /\ ser' = [ser EXCEPT !.invalid_frames = @ + 1,
                                      !.consecutive_good_frames_static = 0]
                /\ loc' = [loc EXCEPT !["c0"] =
                             [LocInit EXCEPT
                                !.todo = << <<"FRAME_CORRUPTION", TRUE>> >>,
                                !.ret = "serial_tail"]]
                /\ pc' = [pc EXCEPT !["c0"] = "sf_enter"]
      /\ fobs' = [fobs EXCEPT !.decided = TRUE, !.offered = in_range]
      /\ UNCHANGED <<now, now_us, wire, rx, timing_info, mutex, core_comm>>

\* atomicBufferPush returned true: mutex_enter_blocking(&comm_mutex)
StampEnter ==
  /\ loc["c0"].success
  /\ Enter("c0", "comm", "push_done", "stamp_body")
  /\ UNCHANGED <<now, now_us, wire, rx, ser, timing_info, fobs, loc, core_comm>>

\* core_comm.last_frame_time = current_time; mutex_exit(&comm_mutex)
StampBody ==
  /\ pc["c0"] = "stamp_body"
  /\ core_comm' = [core_comm EXCEPT !.last_frame_time = ser.current_time]
  /\ mutex' = [mutex EXCEPT !.comm = Free]
  /\ pc' = [pc EXCEPT !["c0"] = "serial_tail"]
  /\ UNCHANGED <<now, now_us, wire, rx, ser, timing_info, fobs, loc>>

\* atomicBufferPush returned false: mutex_enter_blocking(&comm_mutex)
OverflowEnter ==
  /\ ~loc["c0"].success
  /\ Enter("c0", "comm", "push_done", "overflow_body")
  /\ UNCHANGED <<now, now_us, wire, rx, ser, timing_info, fobs, loc, core_comm>>

\* config_active = core_comm.config_mode_active; mutex_exit; the overflow is
\* reported outside configuration mode, at most once per report interval
OverflowBody ==
  LET due == /\ ~core_comm.config_mode_active
             /\ safeMillisElapsed(ser.last_overflow_report, ser.current_time)
                  > runtimeGlobals.critical_error_report_interval_ms
  IN  /\ pc["c0"] = "overflow_body"
      /\ mutex' = [mutex EXCEPT !.comm = Free]
      /\ pc' = [pc EXCEPT !["c0"] = IF due THEN "overflow_report"
                                           ELSE "serial_tail"]
      /\ UNCHANGED <<now, now_us, wire, rx, ser, timing_info, fobs, loc, core_comm>>

\* safeSerialPrintfln(..., getBufferUtilization(), ...): buffer_mutex and
\* serial_mutex are each taken and released; last_overflow_report = current_time
OverflowReport ==
  /\ pc["c0"] = "overflow_report"
  /\ mutex.buffer = Free /\ mutex.serial = Free
  /\ ser' = [ser EXCEPT !.last_overflow_report = ser.current_time]
  /\ pc' = [pc EXCEPT !["c0"] = "serial_tail"]
  /\ UNCHANGED <<now, now_us, wire, rx, timing_info, fobs, loc, mutex, core_comm>>

\* the rest of processLidarSerial after a complete frame
SerialTail ==
  LET tl == TailStep(ser, timing_info)
  IN  /\ pc["c0"] = "serial_tail"
      /\ ser' = tl.ser
      /\ timing_info' = tl.timing
      /\ pc' = [pc EXCEPT !["c0"] = "idle"]
      /\ UNCHANGED <<now, now_us, wire, rx, fobs, loc, mutex, core_comm>>

-----------------------------------------------------------------------------
(* Configuration storage and the GUI commands that edit it (storage.cpp,    *)
(* gui.cpp, globals_config.cpp)                                             *)

MaxGuiCommands == 3   \* GUI commands explored

\* A configuration that only looks at the distances (mutant).
validateConfiguration_distances(config) ==
  \A i \in SwitchCodes :
    /\ config.distance_thresholds[i] >= MIN_DISTANCE_CM
    /\ config.distance_thresholds[i] <= MAX_DISTANCE_CM

\* storage.cpp: validateConfiguration, the value it returns
validateConfiguration(config) ==
  \A i \in SwitchCodes :
    /\ ~(config.distance_thresholds[i] < MIN_DISTANCE_CM
         \/ config.distance_thresholds[i] > MAX_DISTANCE_CM)
    /\ ~(config.velocity_min_thresholds[i] > config.velocity_max_thresholds[i])

\* The two bytes of a 16-bit value (two's complement for an int16_t), added.
Bytes16(x) == LET u == (x + 65536) % 65536 IN Lo(u) + Hi(u)

RECURSIVE SumOver(_, _)
SumOver(f, dom) ==
  IF dom = {} THEN 0
  ELSE LET i == CHOOSE j \in dom : TRUE IN f[i] + SumOver(f, dom \ {i})

\* storage.cpp: calculateChecksum, the bytes of the struct before its
\* checksum added up in a uint16_t
calculateChecksum(config) ==
  ( SumOver([i \in SwitchCodes |-> Bytes16(config.distance_thresholds[i])], SwitchCodes)
  + SumOver([i \in SwitchCodes |-> Bytes16(config.velocity_min_thresholds[i])], SwitchCodes)
  + SumOver([i \in SwitchCodes |-> Bytes16(config.velocity_max_thresholds[i])], SwitchCodes)
  + SumOver([i \in SwitchCodes |-> SumOver(config.trigger_rules[i], 1..4)], SwitchCodes)
  + (IF config.use_velocity_trigger THEN 1 ELSE 0)
  + (IF config.enable_debug THEN 1 ELSE 0) ) % 65536

\* globals_config.cpp: loadDefaultGlobals, for the fields the model uses
DefaultGlobals ==
  [min_strength_threshold |-> MIN_STRENGTH_THRESHOLD,
   critical_error_report_interval_ms |-> 2000]

\* globals_config.cpp: validateGlobalConfiguration, for the fields the model uses
validateGlobalConfiguration(config) ==
  /\ ~(config.min_strength_threshold < 50 \/ config.min_strength_threshold > 1000)
  /\ ~(config.critical_error_report_interval_ms < 500
       \/ config.critical_error_report_interval_ms > 10000)

\* A file in LittleFS: absent, written in full, or cut short by a failed write.
NoFile == [kind |-> "none"]
ShortFile == [kind |-> "short"]
File(data) == [kind |-> "full", data |-> data]

WriteOutcomes == {"written", "open_failed", "short_write"}

\* Runtime globals at their defaults, nothing stored, no command received.
StoreInit ==
  /\ runtimeGlobals = DefaultGlobals
  /\ storage = [config |-> NoFile, globals |-> NoFile]
  /\ cfg_ret = FALSE
  /\ cobs = [cmds |-> 0, saves |-> 0, last |-> "none"]

CfgInit == currentConfig = DefaultConfig /\ StoreInit

\* GUI command 'd': set one distance threshold
GuiSetDistance(pos, val) ==
  /\ cobs.cmds < MaxGuiCommands
  /\ currentConfig' =
       IF pos < 8 /\ val >= MIN_DISTANCE_CM /\ val <= MAX_DISTANCE_CM
         THEN [currentConfig EXCEPT !.distance_thresholds[pos] = val]
         ELSE currentConfig
  /\ cobs' = [cobs EXCEPT !.cmds = @ + 1, !.last = "d"]
  /\ UNCHANGED <<runtimeGlobals, storage, cfg_ret, core_comm>>

\* GUI command 'w': set one velocity bound, 'm' the minimum and 'x' the maximum
GuiSetVelocity(type, pos, val) ==
  /\ cobs.cmds < MaxGuiCommands
  /\ currentConfig' =
       IF pos < 8 /\ (type = "m" \/ type = "x")
         THEN IF type = "m"
                THEN [currentConfig EXCEPT !.velocity_min_thresholds[pos] = val]
                ELSE [currentConfig EXCEPT !.velocity_max_thresholds[pos] = val]
         ELSE currentConfig
  /\ cobs' = [cobs EXCEPT !.cmds = @ + 1, !.last = "w"]
  /\ UNCHANGED <<runtimeGlobals, storage, cfg_ret, core_comm>>

\* storage.cpp: saveConfiguration, as GUI command 'W' calls it.  outc and outg
\* are what LittleFS does with the configuration file and the globals file.
saveConfiguration(outc, outg) ==
  LET ok   == validateConfiguration(currentConfig)
      cfg2 == [currentConfig EXCEPT !.checksum = calculateChecksum(currentConfig)]
      gok  == validateGlobalConfiguration(runtimeGlobals)
  IN  /\ cobs.cmds < MaxGuiCommands
      /\ mutex.comm = Free /\ mutex.perf = Free /\ mutex.serial = Free
      /\ core_comm' = [core_comm EXCEPT !.error_flags =
                         IF ok THEN @ \ {"CONFIG_ERROR"}
                               ELSE @ \cup {"CONFIG_ERROR"}]
      /\ IF ~ok
           THEN /\ cfg_ret' = FALSE
                /\ UNCHANGED <<currentConfig, storage>>
           ELSE /\ currentConfig' = cfg2
                /\ IF outc = "open_failed"
                     THEN /\ cfg_ret' = FALSE
                          /\ UNCHANGED storage
                     ELSE /\ cfg_ret' = (outc = "written")
                          /\ storage' =
                               [config  |-> IF outc = "written" THEN File(cfg2)
                                                                ELSE ShortFile,
                                globals |-> IF gok /\ outg # "open_failed"
                                              THEN IF outg = "written"
                                                     THEN File(runtimeGlobals)
                                                     ELSE ShortFile
                                              ELSE storage.globals]
      /\ cobs' = [cobs EXCEPT !.cmds = @ + 1, !.saves = @ + 1, !.last = "W"]
      /\ UNCHANGED runtimeGlobals

\* GUI command 'm': 1 selects distance only, 2 distance and velocity
GuiSetMode(mode) ==
  /\ cobs.cmds < MaxGuiCommands
  /\ currentConfig' =
       IF mode = 1 \/ mode = 2
         THEN [currentConfig EXCEPT !.use_velocity_trigger = (mode = 2)]
         ELSE currentConfig
  /\ cobs' = [cobs EXCEPT !.cmds = @ + 1, !.last = "m"]
  /\ UNCHANGED <<runtimeGlobals, storage, cfg_ret, core_comm>>

\* GUI command 'g': debug output off (0) or on (1)
GuiSetDebug(debug_val) ==
  LET ok == debug_val = 0 \/ debug_val = 1
  IN  /\ cobs.cmds < MaxGuiCommands
      /\ mutex.comm = Free
      /\ currentConfig' =
           IF ok THEN [currentConfig EXCEPT !.enable_debug = (debug_val = 1)]
                 ELSE currentConfig
      /\ core_comm' =
           IF ok THEN [core_comm EXCEPT !.enable_debug = (debug_val = 1)]
                 ELSE core_comm
      /\ cobs' = [cobs EXCEPT !.cmds = @ + 1, !.last = "g"]
      /\ UNCHANGED <<runtimeGlobals, storage, cfg_ret>>

\* globals.cpp: LidarConfiguration currentConfig, a zero-initialised global
ZeroConfig ==
  [distance_thresholds |-> [i \in SwitchCodes |-> 0],
   velocity_min_thresholds |-> [i \in SwitchCodes |-> 0],
   velocity_max_thresholds |-> [i \in SwitchCodes |-> 0],
   trigger_rules |-> [i \in SwitchCodes |-> <<0, 0, 0, 0>>],
   use_velocity_trigger |-> FALSE,
   enable_debug |-> FALSE,
   checksum |-> 0]

\* storage.cpp: loadDefaultConfig writes every field but the checksum
loadDefaultConfig(config) == [DefaultConfig EXCEPT !.checksum = config.checksum]

MountOutcomes == {"mounted", "mount_failed"}
OpenOutcomes == {"opened", "open_failed"}

\* A loader that takes a full-size file without comparing checksums (mutant).
loadConfiguration_nochecksum(mount, open) ==
  LET f    == storage.config
      read == IF mount = "mounted" /\ f.kind # "none" /\ open = "opened"
                THEN IF f.kind = "full" THEN f.data ELSE currentConfig
                ELSE currentConfig
      good == /\ mount = "mounted" /\ f.kind = "full" /\ open = "opened"
              /\ validateConfiguration(read)
      cfg2 == IF good THEN read ELSE loadDefaultConfig(read)
  IN  /\ cobs.last = "boot"
      /\ mutex.comm = Free /\ mutex.perf = Free /\ mutex.serial = Free
      /\ currentConfig' = cfg2
      /\ core_comm' = [core_comm EXCEPT !.enable_debug = cfg2.enable_debug]
      /\ cobs' = [cobs EXCEPT !.last = "load", !.mount = mount, !.open = open]
      /\ UNCHANGED <<runtimeGlobals, storage, cfg_ret>>

\* storage.cpp: loadConfiguration.  mount and open are what LittleFS.begin
\* (after the format and second attempt) and LittleFS.open do.  readBytes
\* copies the file over currentConfig; a short file ends before the
\* checksum field.  validateConfiguration is reached only when the checksums
\* agree, and sets or clears CONFIG_ERROR.
loadConfiguration(mount, open) ==
  LET f        == storage.config
      wasread  == mount = "mounted" /\ f.kind # "none" /\ open = "opened"
      read     == IF wasread /\ f.kind = "full" THEN f.data ELSE currentConfig
      sumok    == /\ wasread /\ f.kind = "full"
                  /\ calculateChecksum(read) = read.checksum
      good     == sumok /\ validateConfiguration(read)
      cfg2     == IF good THEN read ELSE loadDefaultConfig(read)
  IN  /\ cobs.last = "boot"
      /\ mutex.comm = Free /\ mutex.perf = Free /\ mutex.serial = Free
      /\ currentConfig' = cfg2
      /\ core_comm' =
           [core_comm EXCEPT
              !.enable_debug = IF mount = "mounted" THEN cfg2.enable_debug ELSE @,
              !.error_flags = IF sumok
                                THEN IF good THEN @ \ {"CONFIG_ERROR"}
                                             ELSE @ \cup {"CONFIG_ERROR"}
                                ELSE @]
      /\ cobs' = [cobs EXCEPT !.last = "load", !.mount = mount, !.open = open]
      /\ UNCHANGED <<runtimeGlobals, storage, cfg_ret>>

\* A configuration as saveConfiguration stores it, with its checksum.
Sealed(config) == [config EXCEPT !.checksum = calculateChecksum(config)]

\* A stored configuration whose checksum does not match.
Damaged(config) ==
  [config EXCEPT !.checksum = (calculateChecksum(config) + 1) % 65536]

\* A valid configuration other than the defaults.
CustomConfig ==
  [DefaultConfig EXCEPT !.distance_thresholds[0] = MIN_DISTANCE_CM,
                        !.velocity_max_thresholds[7] = 0 - 2200,
                        !.use_velocity_trigger = FALSE,
                        !.enable_debug = TRUE]

\* What the file system may hold when the firmware starts.
StoredFiles ==
  {NoFile, ShortFile,
   File(Sealed(CustomConfig)),
   File(Damaged(CustomConfig)),
   File(Sealed([CustomConfig EXCEPT !.distance_thresholds[7] = MAX_DISTANCE_CM + 1])),
   File(Sealed([CustomConfig EXCEPT !.distance_thresholds[0] = MIN_DISTANCE_CM - 1])),
   File(Sealed([CustomConfig EXCEPT !.velocity_min_thresholds[7] = 0 - 2199])),
   File(Damaged([CustomConfig EXCEPT !.velocity_min_thresholds[0] = 0 - 249]))}

\* What the GUI may send.
GuiPositions == {0, 7, 8}
GuiDistances == {MIN_DISTANCE_CM - 1, MIN_DISTANCE_CM, MAX_DISTANCE_CM,
                 MAX_DISTANCE_CM + 1}
GuiVelocities == {0 - 2201, 0 - 250, 0 - 249}
GuiModes == {0, 1, 2, 3}
BootPositions == {0, 8}
GuiDebugValues == {0, 1, 2}

-----------------------------------------------------------------------------
(* Velocity estimation on Core 1 (calculations.cpp)                         *)

MaxVelFrames == 1      \* frames added after the first calculateVelocity call

MAX_HISTORY == 15
DISTANCE_DEADBAND_THRESHOLD_CM == 1
VELOCITY_DEADBAND_THRESHOLD_CM_S == 1

Abs(x) == IF x < 0 THEN 0 - x ELSE x

\* A velocity dist_diff * 1000000 / time_diff in cm/s, kept as its two terms
\* (the float the code computes is this value rounded).
Vel(dist_diff, time_diff) == [dist_diff |-> dist_diff, time_diff |-> time_diff]
VelZero == Vel(0, 1)
VelGT(a, b) == a.dist_diff * b.time_diff > b.dist_diff * a.time_diff
VelEq(a, b) == a.dist_diff * b.time_diff = b.dist_diff * a.time_diff

\* calculations.h: the members of AdaptiveVelocityCalculator as constructed
VelocityCalcInit ==
  [history |-> [i \in 0..(MAX_HISTORY - 1) |-> NoFrame], count |-> 0,
   last_velocity |-> VelZero, error_count |-> 0, last_movement_time |-> 0]

\* A history whose newest entry is replaced, nothing being moved (mutant).
addFrame_overwrite(vc, fr) ==
  [vc EXCEPT !.history = [@ EXCEPT ![0] = fr],
             !.count = IF vc.count < MAX_HISTORY THEN vc.count + 1 ELSE vc.count]

\* AdaptiveVelocityCalculator::addFrame
addFrame(vc, fr) ==
  [vc EXCEPT !.history = [i \in 0..(MAX_HISTORY - 1) |->
                            IF i = 0 THEN fr ELSE vc.history[i - 1]],
             !.count = IF vc.count < MAX_HISTORY THEN vc.count + 1 ELSE vc.count]

\* calculateVelocity, the sampling loop: i = 2, 4, ... while i < count and
\* fewer than five velocities have been taken
RECURSIVE SamplePairs(_, _, _, _)
SamplePairs(history, count, i, acc) ==
  IF ~(i < count /\ Len(acc.velocities) < 5) THEN acc
  ELSE LET time_diff == safeMicrosElapsed(history[i].timestamp,
                                          history[0].timestamp)
           dist_diff == history[0].distance - history[i].distance
       IN  IF time_diff > 1000 /\ time_diff < 50000
             THEN SamplePairs(history, count, i + 2,
                    [velocities |-> Append(acc.velocities,
                                           Vel(dist_diff, time_diff)),
                     small_movement_count |->
                       IF Abs(dist_diff) <= DISTANCE_DEADBAND_THRESHOLD_CM
                         THEN acc.small_movement_count + 1
                         ELSE acc.small_movement_count])
             ELSE SamplePairs(history, count, i + 2, acc)

\* calculateVelocity, the exchange sort: for i, for j > i, swap when
\* velocities[i] > velocities[j] (indices from 0, the sequence from 1)
RECURSIVE SortVelocities(_, _, _)
SortVelocities(v, i, j) ==
  IF ~(i < Len(v) - 1) THEN v
  ELSE IF ~(j < Len(v)) THEN SortVelocities(v, i + 1, i + 2)
  ELSE IF VelGT(v[i + 1], v[j + 1])
         THEN SortVelocities([v EXCEPT ![i + 1] = v[j + 1], ![j + 1] = v[i + 1]],
                             i, j + 1)
         ELSE SortVelocities(v, i, j + 1)

\* A calculator that returns the largest velocity (mutant).
MedianVelocity_largest(velocities) ==
  SortVelocities(velocities, 0, 1)[Len(velocities)]

\* calculateVelocity: velocities[0] of one, else velocities[valid / 2] sorted
MedianVelocity(velocities) ==
  IF Len(velocities) = 1 THEN velocities[1]
  ELSE SortVelocities(velocities, 0, 1)[(Len(velocities) \div 2) + 1]

\* A calculator that snaps only when every pair is a small movement (mutant).
SmallMovementMajority_all(small_movement_count, valid_velocities) ==
  small_movement_count >= valid_velocities

\* calculateVelocity: small_movement_count >= (valid_velocities / 2 + 1)
SmallMovementMajority(small_movement_count, valid_velocities) ==
  small_movement_count >= (valid_velocities \div 2) + 1

\* AdaptiveVelocityCalculator::calculateVelocity with millis() = t: the
\* calculator afterwards, the value returned and the safeSetErrorFlag call
\* made on ERROR_FLAG_VELOCITY_CALC_ERROR ("none", "set" or "clear").
calculateVelocity(vc, t) ==
  IF vc.count < 5 THEN [calc |-> vc, ret |-> VelZero, flag |-> "none"]
  ELSE
    LET acc == SamplePairs(vc.history, vc.count, 2,
                           [velocities |-> <<>>, small_movement_count |-> 0])
        valid_velocities == Len(acc.velocities)
    IN  IF valid_velocities = 0
          THEN [calc |-> [vc EXCEPT !.error_count = @ + 1],
                ret  |-> vc.last_velocity,
                flag |-> IF vc.error_count + 1 > 10 THEN "set" ELSE "clear"]
        ELSE IF SmallMovementMajority(acc.small_movement_count, valid_velocities)
          THEN [calc |-> [vc EXCEPT !.last_velocity = VelZero,
                                    !.last_movement_time = t,
                                    !.error_count = 0],
                ret  |-> VelZero,
                flag |-> "clear"]
        ELSE
          LET m == MedianVelocity(acc.velocities)
              median_velocity ==
                IF Abs(m.dist_diff) * 1000000
                     <= VELOCITY_DEADBAND_THRESHOLD_CM_S * m.time_diff
                  THEN VelZero ELSE m
          IN  [calc |-> [vc EXCEPT !.last_velocity = median_velocity,
                                   !.last_movement_time = t,
                                   !.error_count = 0],
               ret  |-> median_velocity,
               flag |-> "clear"]

\* No frame has been popped yet.
VelInit ==
  /\ velocity_calc = VelocityCalcInit
  /\ vel_ret = VelZero
  /\ vobs = [phase |-> "calc", frames |-> 0, calls |-> 0, prior_errors |-> 0]

\* No elapsed-time call has been made yet.
ElInit == elapsed = [fn |-> "none", start |-> 0, current |-> 0, ret |-> 0]

-----------------------------------------------------------------------------
(* The mutex acquisitions of the two loops, in program order *)

LockEnter(m) == <<"enter", m>>
LockExit(m)  == <<"exit", m>>

\* a critical section on one mutex with no call inside it
BufferSection == <<LockEnter("buffer"), LockExit("buffer")>>
CommSection   == <<LockEnter("comm"), LockExit("comm")>>
PerfSection   == <<LockEnter("perf"), LockExit("perf")>>
SerialSection == <<LockEnter("serial"), LockExit("serial")>>

\* globals.cpp safeSetErrorFlag: perf_mutex is taken inside comm_mutex when
\* the flag is newly set
safeSetErrorFlagLocks(newly_set) ==
  <<LockEnter("comm")>>
    \o (IF newly_set THEN PerfSection ELSE <<>>)
    \o <<LockExit("comm")>>

\* globals.cpp atomicBufferPush: buffer_mutex, then after its release the
\* counters and flags
PushOutcomes == {"dropped", "clear", "warning", "critical"}
atomicBufferPushLocks(outcome, newly_set) ==
  BufferSection \o
  CASE outcome = "dropped" ->
         CommSection \o safeSetErrorFlagLocks(newly_set)
    [] outcome = "clear" ->
         PerfSection \o CommSection
           \o safeSetErrorFlagLocks(FALSE) \o safeSetErrorFlagLocks(FALSE)
    [] outcome = "warning" ->
         PerfSection \o CommSection \o safeSetErrorFlagLocks(newly_set)
    [] OTHER ->
         PerfSection \o CommSection
           \o safeSetErrorFlagLocks(newly_set) \o safeSetErrorFlagLocks(newly_set)

\* globals.cpp atomicBufferPop: both warning flags are cleared with
\* buffer_mutex held; frames_processed is counted after its release
PopOutcomes == {"empty", "popped", "popped_low"}
atomicBufferPopLocks(outcome) ==
  <<LockEnter("buffer")>>
    \o (IF outcome = "popped_low"
          THEN safeSetErrorFlagLocks(FALSE) \o safeSetErrorFlagLocks(FALSE)
          ELSE <<>>)
    \o <<LockExit("buffer")>>
    \o (IF outcome = "empty" THEN <<>> ELSE CommSection)

\* core0_handling.cpp checkLidarSensorHealth: three isDebugEnabled() calls,
\* each followed by a print when debug output is on
checkLidarSensorHealthLocks(debug) ==
  LET one == CommSection \o (IF debug THEN SerialSection ELSE <<>>)
  IN  one \o one \o one

\* The flush of attemptRecovery with buffer_mutex taken before comm_mutex is
\* released.
BufferFlushLocks_nested ==
  <<LockEnter("comm"), LockEnter("buffer"), LockExit("buffer"),
    LockExit("comm")>>

\* attemptRecovery: recovery_attempts++ under comm_mutex, then the flush
\* under buffer_mutex
BufferFlushLocks == CommSection \o BufferSection

RecoveryLevels == {"none", "flush", "soft", "reinit", "reinit_over"}

\* core0_handling.cpp attemptRecovery
attemptRecoveryLocks(level, debug, healthy) ==
  CASE level = "none" -> <<>>
    [] level = "flush" ->
         BufferFlushLocks \o checkLidarSensorHealthLocks(debug)
           \o (IF healthy THEN <<>> ELSE SerialSection)
           \o SerialSection \o PerfSection
    [] level = "soft" ->
         CommSection \o checkLidarSensorHealthLocks(debug)
           \o (IF healthy THEN <<>> ELSE SerialSection)
           \o SerialSection \o PerfSection
    [] level = "reinit" ->
         CommSection \o SerialSection \o CommSection
    [] OTHER ->
         CommSection \o SerialSection
           \o <<LockEnter("comm")>> \o SerialSection \o <<LockExit("comm")>>

\* What a pass of the health monitor finds: configuration mode active, the
\* check not yet due, the last frame recent enough, or a timeout.
HealthPaths == {"config", "idle", "quiet", "timeout"}

\* processCore0StateMachine in CORE0_READY: safeGetCore1Ready(); on the
\* first pass the last_frame_time reset, isDebugEnabled() and the notice;
\* the config_mode_active read; then isDebugEnabled() and the notice of
\* configuration mode, or the last_frame_time read, the announcement, the
\* recovery and, unless the re-initialisation was refused,
\* safeSetErrorFlag(ERROR_FLAG_COMM_TIMEOUT, true)
HealthMonitorLocks(first, path, level, debug, healthy, newly_set) ==
  CommSection
    \o (IF first
          THEN CommSection \o CommSection
                 \o (IF debug THEN SerialSection ELSE <<>>)
          ELSE <<>>)
    \o CommSection
    \o CASE path = "config" ->
              CommSection \o (IF debug THEN SerialSection ELSE <<>>)
         [] path = "idle" -> <<>>
         [] path = "quiet" -> CommSection
         [] OTHER ->
              CommSection \o SerialSection
                \o attemptRecoveryLocks(level, debug, healthy)
                \o (IF level = "reinit_over" THEN <<>>
                    ELSE safeSetErrorFlagLocks(newly_set))

FrameOutcomes == PushOutcomes \cup {"corrupt", "rejected"}

\* loop0_handler: safeGetCore1Ready(), then processLidarSerial completing
\* one frame.  A bad checksum sets ERROR_FLAG_FRAME_CORRUPTION and is
\* printed; a right one clears two flags and (at five) the attempt counter,
\* then the frame is turned away, or pushed and last_frame_time stamped, or
\* the overflow reported with getBufferUtilization().
FramingLocks(outcome, debug, newly_set) ==
  LET report == CommSection \o (IF debug THEN SerialSection ELSE <<>>)
      cleared == safeSetErrorFlagLocks(FALSE) \o safeSetErrorFlagLocks(FALSE)
                   \o CommSection \o CommSection
  IN  CommSection \o CommSection \o
      CASE outcome = "corrupt" -> safeSetErrorFlagLocks(newly_set) \o report
        [] outcome = "rejected" ->
             cleared \o safeSetErrorFlagLocks(newly_set) \o report
        [] outcome = "dropped" ->
             cleared \o atomicBufferPushLocks(outcome, newly_set)
               \o CommSection \o BufferSection \o SerialSection
        [] OTHER ->
             cleared \o atomicBufferPushLocks(outcome, newly_set)
               \o CommSection

\* reportCore0Status: isDebugEnabled()
Core0StatusLocks == CommSection

\* loop1_handler in RUNNING: the switch read, then processIncomingFrames on
\* one popped frame: configuration copy, velocity error flag, results
ProcessingLocks(outcome, newly_set) ==
  CommSection \o atomicBufferPopLocks(outcome) \o
  (IF outcome = "empty" THEN <<>>
   ELSE safeSetErrorFlagLocks(newly_set) \o CommSection \o CommSection)

\* handleStatusLED; handleDebugOutput: isDebugEnabled(), and with debug
\* output on the copy of core_comm, getBufferUtilization() and the print;
\* reportCore1Status: isDebugEnabled()
Core1StatusLocks(debug) ==
  CommSection \o CommSection \o
  (IF debug THEN CommSection \o BufferSection \o SerialSection ELSE <<>>)
  \o CommSection

\* loop1_handler in config mode: processGuiCommands ('S' and 'g' take
\* comm_mutex), then the buffer drain
GuiLocks(outcome) == CommSection \o atomicBufferPopLocks(outcome)

Core0Programs ==
  {HealthMonitorLocks(first, path, "none", debug, TRUE, FALSE) :
     first \in BOOLEAN, path \in HealthPaths \ {"timeout"},
     debug \in BOOLEAN}
  \cup {HealthMonitorLocks(first, "timeout", level, debug, healthy, newly_set) :
          first \in BOOLEAN, level \in RecoveryLevels, debug \in BOOLEAN,
          healthy \in BOOLEAN, newly_set \in BOOLEAN}
  \cup {FramingLocks(outcome, debug, newly_set) :
          outcome \in FrameOutcomes, debug \in BOOLEAN,
          newly_set \in BOOLEAN}
  \cup {Core0StatusLocks}

Core1Programs ==
  {ProcessingLocks(outcome, newly_set) :
     outcome \in PopOutcomes, newly_set \in BOOLEAN}
  \cup {Core1StatusLocks(debug) : debug \in BOOLEAN}
  \cup {GuiLocks(outcome) : outcome \in PopOutcomes}

LockPrograms(c) == IF c = "c0" THEN Core0Programs ELSE Core1Programs

\* Both cores are between two passes of their loops.
LockInit == lock_pc = [c \in Cores |-> [prog |-> <<>>, at |-> 1]]

LockDone(c) == lock_pc[c].at > Len(lock_pc[c].prog)
LockStepOf(c) == lock_pc[c].prog[lock_pc[c].at]

\* a core starts the next part of its loop
LockBegin(c, prog) ==
  /\ LockDone(c)
  /\ Len(prog) > 0
  /\ lock_pc' = [lock_pc EXCEPT ![c] = [prog |-> prog, at |-> 1]]
  /\ UNCHANGED mutex

\* mutex_enter_blocking: spins until the mutex is free; the mutexes are not
\* recursive
LockAcquire(c) ==
  /\ ~LockDone(c)
  /\ LockStepOf(c)[1] = "enter"
  /\ mutex[LockStepOf(c)[2]] = Free
  /\ mutex' = [mutex EXCEPT ![LockStepOf(c)[2]] = c]
  /\ lock_pc' = [lock_pc EXCEPT ![c].at = @ + 1]

\* mutex_exit
LockRelease(c) ==
  /\ ~LockDone(c)
  /\ LockStepOf(c)[1] = "exit"
  /\ mutex' = [mutex EXCEPT ![LockStepOf(c)[2]] = Free]
  /\ lock_pc' = [lock_pc EXCEPT ![c].at = @ + 1]

-----------------------------------------------------------------------------
(* Core 0 state machine: bring-up, health monitor and recovery ladder *)

\* config.h defaults, copied into runtimeGlobals by loadDefaultGlobals
STARTUP_DELAY_MS == 1000
LIDAR_INIT_STEP_DELAY_MS == 500
LIDAR_FINAL_DELAY_MS == 100
MAX_RECOVERY_ATTEMPTS == 3
RECOVERY_ATTEMPT_DELAY_MS == 5000
CONFIG_MODE_TIMEOUT_MS == 15000

RECOVERY_LEVEL_NONE == 0
RECOVERY_LEVEL_BUFFER_FLUSH == 1
RECOVERY_LEVEL_SOFT_RESET == 2
RECOVERY_LEVEL_FULL_REINIT == 3

\* delay(500) and delay(200) of the soft reset
SOFT_RESET_DELAY_MS == 500 + 200

\* Time passes in steps of MsPerTick between two passes of the loops.
MsPerTick == 1000
\* The soft reset returns at the first such step after its delays.
SoftResetTime ==
  ((SOFT_RESET_DELAY_MS + MsPerTick - 1) \div MsPerTick) * MsPerTick
\* the uptime up to which the ladder is followed step by step
MaxC0Time == 50000
\* passes of Core 0 during which the millisecond counter moves on
MaxLate == 1
\* frames the sensor delivers that are pushed
MaxC0Pushes == 1
\* the diagnostic counters are followed up to this value
MaxCounted == 1

Counted(n) == Min(n + 1, MaxCounted)

\* The observer's stopwatch stops here, beyond every limit it is compared to.
IdleCap == 2000 + 2 * MsPerTick
Idle(ms) == Min(ms, IdleCap)

\* A bring-up that goes from CORE0_SET_BAUD_RATE straight to the wait,
\* without CORE0_SAVE_SETTINGS (mutant).
BringUpNext_nosave ==
  [CORE0_STARTUP          |-> "CORE0_SERIAL_INIT_LOW",
   CORE0_SERIAL_INIT_LOW  |-> "CORE0_SET_BAUD_RATE",
   CORE0_SET_BAUD_RATE    |-> "CORE0_BAUD_RATE_WAIT",
   CORE0_SAVE_SETTINGS    |-> "CORE0_BAUD_RATE_WAIT",
   CORE0_BAUD_RATE_WAIT   |-> "CORE0_SERIAL_INIT_HIGH",
   CORE0_SERIAL_INIT_HIGH |-> "CORE0_LIDAR_STOP",
   CORE0_LIDAR_STOP       |-> "CORE0_LIDAR_RATE",
   CORE0_LIDAR_RATE       |-> "CORE0_LIDAR_ENABLE",
   CORE0_LIDAR_ENABLE     |-> "CORE0_LIDAR_CLEANUP"]

BringUpNext ==
  [CORE0_STARTUP          |-> "CORE0_SERIAL_INIT_LOW",
   CORE0_SERIAL_INIT_LOW  |-> "CORE0_SET_BAUD_RATE",
   CORE0_SET_BAUD_RATE    |-> "CORE0_SAVE_SETTINGS",
   CORE0_SAVE_SETTINGS    |-> "CORE0_BAUD_RATE_WAIT",
   CORE0_BAUD_RATE_WAIT   |-> "CORE0_SERIAL_INIT_HIGH",
   CORE0_SERIAL_INIT_HIGH |-> "CORE0_LIDAR_STOP",
   CORE0_LIDAR_STOP       |-> "CORE0_LIDAR_RATE",
   CORE0_LIDAR_RATE       |-> "CORE0_LIDAR_ENABLE",
   CORE0_LIDAR_ENABLE     |-> "CORE0_LIDAR_CLEANUP"]

\* what safeMillisElapsed(core0_state_timer, current_time) has to reach
BringUpDelay ==
  [CORE0_STARTUP          |-> STARTUP_DELAY_MS,
   CORE0_SERIAL_INIT_LOW  |-> 0,
   CORE0_SET_BAUD_RATE    |-> 0,
   CORE0_SAVE_SETTINGS    |-> 100,
   CORE0_BAUD_RATE_WAIT   |-> 1000,
   CORE0_SERIAL_INIT_HIGH |-> 0,
   CORE0_LIDAR_STOP       |-> LIDAR_INIT_STEP_DELAY_MS,
   CORE0_LIDAR_RATE       |-> LIDAR_INIT_STEP_DELAY_MS,
   CORE0_LIDAR_ENABLE     |-> LIDAR_FINAL_DELAY_MS]

\* initializeSystem: both cores at the start of their bring-up; Core 1 is
\* followed from CORE1_CONFIG_MODE_CHECK on
C0Init ==
  /\ core0_state = "CORE0_STARTUP"
  /\ core0_state_timer = 0
  /\ core0_static = [system_fully_ready |-> FALSE, last_health_check |-> 0,
                     last_recovery_attempt |-> 0]
  /\ core1_state = "CORE1_STARTUP"
  /\ core1_state_timer = 0
  /\ c0obs = [ran |-> FALSE, late |-> 0, pushes |-> 0, idle |-> 0,
              ran1 |-> FALSE, done |-> RECOVERY_LEVEL_NONE, idle_at |-> 0,
              attempts_at |-> 0, config_at |-> FALSE,
              level |-> RECOVERY_LEVEL_NONE, level_before |-> RECOVERY_LEVEL_NONE,
              acted_at |-> NoTime, counted |-> 0]

\* attemptRecovery without its test of the time since the last attempt.
attemptRecovery_nolimit(recovery_level, current_time, recovery_attempts, last_recovery_attempt) ==
  [ret |-> TRUE, done |-> recovery_level,
   counted |-> recovery_attempts + 1,
   recovery_attempts |-> recovery_attempts + 1,
   last_recovery_attempt |-> current_time]

\* attemptRecovery(recovery_level), with current_time the value of millis()
\* it reads: what it returns, the level it performed, the counter as its
\* increment left it, and the two values it has written when it returns
attemptRecovery(recovery_level, current_time, recovery_attempts, last_recovery_attempt) ==
  IF safeMillisElapsed(last_recovery_attempt, current_time)
       < RECOVERY_ATTEMPT_DELAY_MS
    THEN [ret |-> FALSE, done |-> RECOVERY_LEVEL_NONE,
          counted |-> recovery_attempts,
          recovery_attempts |-> recovery_attempts,
          last_recovery_attempt |-> last_recovery_attempt]
    ELSE IF recovery_level # RECOVERY_LEVEL_FULL_REINIT
      THEN [ret |-> TRUE, done |-> recovery_level,
            counted |-> recovery_attempts + 1,
            recovery_attempts |-> recovery_attempts + 1,
            last_recovery_attempt |-> current_time]
      ELSE IF recovery_attempts + 1 > MAX_RECOVERY_ATTEMPTS
        THEN [ret |-> FALSE, done |-> RECOVERY_LEVEL_NONE,
              counted |-> recovery_attempts + 1,
              recovery_attempts |-> 0,
              last_recovery_attempt |-> last_recovery_attempt]
        ELSE [ret |-> TRUE, done |-> RECOVERY_LEVEL_FULL_REINIT,
              counted |-> recovery_attempts + 1,
              recovery_attempts |-> recovery_attempts + 1,
              last_recovery_attempt |-> last_recovery_attempt]

\* The ladder with the full re-initialisation one attempt later.
RecoveryLevelFor_late(recovery_attempts) ==
  IF recovery_attempts = 0 THEN RECOVERY_LEVEL_BUFFER_FLUSH
  ELSE IF recovery_attempts <= 2 THEN RECOVERY_LEVEL_SOFT_RESET
  ELSE RECOVERY_LEVEL_FULL_REINIT

\* The level the health monitor asks for at this attempt count.
RecoveryLevelFor(recovery_attempts) ==
  IF recovery_attempts = 0 THEN RECOVERY_LEVEL_BUFFER_FLUSH
  ELSE IF recovery_attempts = 1 THEN RECOVERY_LEVEL_SOFT_RESET
  ELSE RECOVERY_LEVEL_FULL_REINIT

\* processCore0StateMachine in a bring-up state
Core0BringUp ==
  LET current_time == now
      due == safeMillisElapsed(core0_state_timer, current_time)
               >= BringUpDelay[core0_state]
  IN  /\ core0_state \in DOMAIN BringUpNext
      /\ core0_state' = IF due THEN BringUpNext[core0_state] ELSE core0_state
      /\ core0_state_timer' = IF due THEN current_time ELSE core0_state_timer
      /\ rx' = IF due /\ core0_state = "CORE0_LIDAR_ENABLE" THEN <<>> ELSE rx
      /\ c0obs' = [c0obs EXCEPT !.ran = ~due, !.done = RECOVERY_LEVEL_NONE]
      /\ UNCHANGED <<now, core_comm, bufVars, perf_metrics, core0_static>>

\* processCore0StateMachine in CORE0_LIDAR_CLEANUP
Core0Cleanup ==
  LET current_time == now
  IN  /\ core0_state = "CORE0_LIDAR_CLEANUP"
      /\ core_comm' = [core_comm EXCEPT !.last_frame_time = current_time,
                                        !.recovery_attempts = 0,
                                        !.lidar_initialized = TRUE]
      /\ core0_state' = "CORE0_READY"
      /\ c0obs' = [c0obs EXCEPT !.ran = FALSE,
                                !.done = RECOVERY_LEVEL_NONE, !.idle = 0,
                                !.level = RECOVERY_LEVEL_NONE,
                                !.level_before = c0obs.level]
      /\ UNCHANGED <<now, bufVars, perf_metrics, rx, core0_state_timer,
                     core0_static>>

\* processCore0StateMachine in CORE0_READY.  current_time is read on entry;
\* the millis() of the one-time reset and the one inside attemptRecovery are
\* read late milliseconds after it.
Core0Ready(late) ==
  LET current_time == now
      millis_again == (now + late) % UINT32_MOD
      first == ~core0_static.system_fully_ready
      last_frame_ms == IF first THEN millis_again ELSE core_comm.last_frame_time
      config_active == core_comm.config_mode_active
      check == /\ ~config_active
               /\ safeMillisElapsed(core0_static.last_health_check,
                                    current_time) > 5000
      recovery_attempts == core_comm.recovery_attempts
      comm_timeout == safeMillisElapsed(last_frame_ms, current_time)
      fire == check /\ comm_timeout > 2000
      level == RecoveryLevelFor(recovery_attempts)
      r == IF fire
             THEN attemptRecovery(level, millis_again, recovery_attempts,
                                  core0_static.last_recovery_attempt)
             ELSE [ret |-> FALSE, done |-> RECOVERY_LEVEL_NONE,
                   counted |-> recovery_attempts,
                   recovery_attempts |-> recovery_attempts,
                   last_recovery_attempt |-> core0_static.last_recovery_attempt]
      reinit == fire /\ level = RECOVERY_LEVEL_FULL_REINIT /\ r.ret
      flag == fire /\ (level # RECOVERY_LEVEL_FULL_REINIT \/ r.ret)
      delay == IF r.done = RECOVERY_LEVEL_SOFT_RESET THEN SoftResetTime ELSE 0
      idle_then == IF first THEN 0 ELSE Idle(c0obs.idle + late)
  IN  /\ core0_state = "CORE0_READY"
      /\ core_comm.core1_ready
      /\ late > 0 => c0obs.late < MaxLate /\ (first \/ fire)
      /\ core_comm' =
           [core_comm EXCEPT !.last_frame_time = last_frame_ms,
                             !.recovery_attempts = r.recovery_attempts,
                             !.error_flags =
                                IF flag THEN @ \cup {"COMM_TIMEOUT"} ELSE @]
      /\ core0_static' =
           [system_fully_ready |-> ~reinit,
            last_health_check |->
              IF check THEN current_time ELSE core0_static.last_health_check,
            last_recovery_attempt |-> r.last_recovery_attempt]
      /\ core0_state' = IF reinit THEN "CORE0_STARTUP" ELSE core0_state
      /\ core0_state_timer' = IF reinit THEN current_time ELSE core0_state_timer
      /\ IF r.done = RECOVERY_LEVEL_BUFFER_FLUSH
           THEN /\ buffer_head' = 0
                /\ buffer_tail' = 0
                /\ buffer_count' = 0
                /\ rx' = <<>>
                /\ UNCHANGED frame_buffer
           ELSE UNCHANGED <<bufVars, rx>>
      /\ perf_metrics' =
           IF r.done \in {RECOVERY_LEVEL_BUFFER_FLUSH, RECOVERY_LEVEL_SOFT_RESET}
             THEN [perf_metrics EXCEPT !.recovery_attempt_count = Counted(@)]
             ELSE perf_metrics
      /\ now' = (now + late + delay) % UINT32_MOD
      /\ c0obs' =
           [c0obs EXCEPT !.ran = ~first /\ ~reinit,
                         !.late = IF late > 0 THEN @ + 1 ELSE @,
                         !.idle = Idle(idle_then + delay),
                         !.done = r.done,
                         !.idle_at = idle_then,
                         !.attempts_at = recovery_attempts,
                         !.config_at = config_active,
                         !.level = IF r.done = RECOVERY_LEVEL_NONE
                                     THEN @ ELSE r.done,
                         !.level_before = c0obs.level,
                         !.acted_at = IF r.done = RECOVERY_LEVEL_NONE
                                        THEN @ ELSE millis_again,
                         !.counted = r.counted]

\* processCore0StateMachine in CORE0_READY while safeGetCore1Ready() is false
Core0ReadyWait ==
  /\ core0_state = "CORE0_READY"
  /\ ~core_comm.core1_ready
  /\ c0obs' = [c0obs EXCEPT !.ran = TRUE,
                            !.done = RECOVERY_LEVEL_NONE]
  /\ UNCHANGED <<now, core_comm, bufVars, perf_metrics, rx, core0_state,
                 core0_state_timer, core0_static>>

\* One call of processCore0StateMachine
Core0StateMachine(late) ==
  \/ late = 0 /\ Core0BringUp
  \/ late = 0 /\ Core0Cleanup
  \/ late = 0 /\ Core0ReadyWait
  \/ Core0Ready(late)

\* The frame processLidarSerial pushes in this part of the model.
Core0PushedFrame ==
  [distance |-> MIN_DISTANCE_CM, strength |-> MIN_STRENGTH_THRESHOLD,
   temperature |-> 0, timestamp |-> micros, valid |-> TRUE]

C0FrameKinds == {"pushed", "dropped", "rejected"}

\* loop0_handler, after processCore0StateMachine: processLidarSerial
\* completing a frame whose checksum is right.  kind says what becomes of
\* it: pushed, dropped because the queue is full, or rejected as out of
\* range or too weak.
Core0Frame(kind) ==
  LET current_time == now
      good == ser.consecutive_good_frames + 1
      reset == good >= 5
      cleared == core_comm.error_flags \ {"FRAME_CORRUPTION", "COMM_TIMEOUT"}
      count == buffer_count + 1
      warnings == IF count >= BUFFER_WARNING_THRESHOLD
                    THEN IF count >= BUFFER_CRITICAL_THRESHOLD
                           THEN {"BUFFER_WARNING", "BUFFER_CRITICAL"}
                           ELSE {"BUFFER_WARNING"}
                    ELSE {}
  IN  /\ c0obs.ran
      /\ core_comm.core1_ready
      /\ core0_state = "CORE0_READY"
      /\ kind = "pushed" => c0obs.pushes < MaxC0Pushes
      /\ (kind = "dropped") = (kind # "rejected" /\ buffer_count >= FRAME_BUFFER_SIZE)
      /\ ser' = [ser EXCEPT
                   !.consecutive_good_frames = IF reset THEN 0 ELSE good,
                   !.consecutive_good_frames_static =
                      IF kind = "rejected" THEN 0 ELSE @,
                   !.valid_frames = IF kind # "rejected" THEN Counted(@) ELSE @,
                   !.invalid_frames = IF kind = "rejected" THEN Counted(@) ELSE @]
      /\ core_comm' =
           [core_comm EXCEPT
              !.recovery_attempts = IF reset THEN 0 ELSE @,
              !.error_flags =
                 CASE kind = "pushed" ->
                        IF warnings = {}
                          THEN cleared \ {"BUFFER_WARNING", "BUFFER_CRITICAL"}
                          ELSE cleared \cup warnings
                   [] kind = "dropped" -> cleared \cup {"BUFFER_OVERFLOW"}
                   [] OTHER -> cleared \cup {"FRAME_CORRUPTION"},
              !.frames_received = IF kind = "pushed" THEN @ + 1 ELSE @,
              !.dropped_frames = IF kind = "dropped" THEN Counted(@) ELSE @,
              !.last_frame_time = IF kind = "pushed" THEN current_time ELSE @]
      /\ IF kind = "pushed"
           THEN /\ frame_buffer' =
                     [frame_buffer EXCEPT ![buffer_head] = Core0PushedFrame]
                /\ buffer_head' = (buffer_head + 1) % FRAME_BUFFER_SIZE
                /\ buffer_count' = count
                /\ UNCHANGED buffer_tail
           ELSE UNCHANGED bufVars
      /\ perf_metrics' =
           [perf_metrics EXCEPT
              !.max_buffer_utilization =
                 IF kind = "pushed" /\ count > @ THEN count ELSE @,
              !.frame_corruption_count =
                 IF kind = "rejected" THEN Counted(@) ELSE @]
      /\ c0obs' = [c0obs EXCEPT
                     !.done = RECOVERY_LEVEL_NONE,
                     !.pushes = IF kind = "pushed" THEN @ + 1 ELSE @,
                     !.idle = IF kind = "pushed" THEN 0 ELSE @,
                     !.level = IF kind = "pushed" THEN RECOVERY_LEVEL_NONE ELSE @]
      /\ UNCHANGED <<now, rx, core0_state, core0_state_timer, core0_static,
                     core1_state, core1_state_timer, current_state>>

\* processCore1StateMachine; serial_input is Serial.available() > 0.  What
\* CORE1_PINS_INIT and CORE1_CONFIG_LOAD do to the pins and to the active
\* configuration is outside this part of the model.
Core1StateMachine(serial_input) ==
  LET current_time == now
  IN  /\ CASE core1_state = "CORE1_STARTUP" ->
                /\ core1_state' =
                     IF safeMillisElapsed(core1_state_timer, current_time) >= 500
                       THEN "CORE1_PINS_INIT" ELSE core1_state
                /\ core1_state_timer' =
                     IF safeMillisElapsed(core1_state_timer, current_time) >= 500
                       THEN current_time ELSE core1_state_timer
                /\ UNCHANGED <<core_comm, current_state>>
           [] core1_state = "CORE1_PINS_INIT" ->
                /\ core1_state' = "CORE1_CONFIG_LOAD"
                /\ core1_state_timer' = current_time
                /\ UNCHANGED <<core_comm, current_state>>
           [] core1_state = "CORE1_CONFIG_LOAD" ->
                /\ core1_state' = "CORE1_CONFIG_MODE_CHECK"
                /\ core1_state_timer' = current_time
                /\ UNCHANGED <<core_comm, current_state>>
           [] core1_state = "CORE1_CONFIG_MODE_CHECK" ->
                /\ UNCHANGED core1_state_timer
                /\ IF serial_input
                     THEN /\ current_state' = "STATE_CONFIG"
                          /\ core_comm' =
                               [core_comm EXCEPT !.config_mode_active = TRUE]
                          /\ core1_state' = "CORE1_READY"
                     ELSE IF safeMillisElapsed(core1_state_timer, current_time)
                               >= CONFIG_MODE_TIMEOUT_MS
                       THEN /\ current_state' = "STATE_RUNNING"
                            /\ core_comm' =
                                 [core_comm EXCEPT !.config_mode_active = FALSE]
                            /\ core1_state' = "CORE1_READY"
                       ELSE UNCHANGED <<core_comm, core1_state, current_state>>
           [] core1_state = "CORE1_READY" ->
                /\ core_comm' = [core_comm EXCEPT !.core1_ready = TRUE]
                /\ core1_state' = "done"
                /\ UNCHANGED <<core1_state_timer, current_state>>
           [] OTHER -> FALSE
      /\ c0obs' = [c0obs EXCEPT !.ran1 = (core1_state' = core1_state),
                                !.done = RECOVERY_LEVEL_NONE]
      /\ UNCHANGED <<now, bufVars, perf_metrics, rx, ser, core0_state,
                     core0_state_timer, core0_static>>

\* The loops turn many times in a millisecond: time passes once a pass of
\* each state machine has found nothing to do.  It passes by one tick, or by
\* what is left until the counter wraps.
C0Tick ==
  LET dt == Min(MsPerTick, UINT32_MOD - now)
  IN  /\ c0obs.ran
      /\ c0obs.ran1 \/ core1_state = "done"
      /\ now' = (now + dt) % UINT32_MOD
      /\ c0obs' = [c0obs EXCEPT !.ran = FALSE, !.ran1 = FALSE,
                                !.done = RECOVERY_LEVEL_NONE,
                                !.idle = Idle(@ + dt)]
      /\ UNCHANGED <<core_comm, bufVars, perf_metrics, rx, ser, core0_state,
                     core0_state_timer, core0_static, core1_state,
                     core1_state_timer, current_state>>

\* globals.cpp: SystemState current_state = STATE_INIT; Core 1 is between two
\* passes of loop1_handler.
Loop1Idle == [at |-> "idle", frames_this_cycle |-> 0, frame |-> NoFrame]

Loop1Init ==
  /\ current_state = "STATE_INIT"
  /\ loop1 = Loop1Idle
  /\ l1obs = [pushes |-> 0, removed |-> 0, popped |-> <<>>, piped |-> <<>>,
              state_changes |-> 0]

RestInit == ElInit /\ LockInit /\ C0Init /\ Loop1Init
OtherInit == VelInit /\ RestInit

\* Both cores have finished their bring-up: Core 0 is in CORE0_READY.
C0Running ==
  /\ core0_state = "CORE0_READY"
  /\ core0_state_timer = 0
  /\ core0_static = [system_fully_ready |-> FALSE, last_health_check |-> 0,
                     last_recovery_attempt |-> 0]
  /\ core1_state = "done"
  /\ core1_state_timer = 0
  /\ c0obs = [ran |-> FALSE, late |-> 0, pushes |-> 0, idle |-> 0,
              ran1 |-> FALSE, done |-> RECOVERY_LEVEL_NONE, idle_at |-> 0,
              attempts_at |-> 0, config_at |-> FALSE,
              level |-> RECOVERY_LEVEL_NONE, level_before |-> RECOVERY_LEVEL_NONE,
              acted_at |-> NoTime, counted |-> 0]
RunningInit == VelInit /\ ElInit /\ LockInit /\ C0Running /\ Loop1Init

\* Timer values around zero, the recovery timeout, the middle and the wrap
ElapsedTimes(mod) ==
  {0, 1, 2000, 2001, mod \div 2, mod - 2001, mod - 2000, mod - 2, mod - 1}

\* A call safeMillisElapsed(start, current)
MillisElapsedCall(start, current) ==
  elapsed' = [fn |-> "millis", start |-> start, current |-> current,
              ret |-> safeMillisElapsed(start, current)]

\* A call safeMicrosElapsed(start, current)
MicrosElapsedCall(start, current) ==
  elapsed' = [fn |-> "micros", start |-> start, current |-> current,
              ret |-> safeMicrosElapsed(start, current)]

\* velocity_calc.addFrame(frame) on a frame d cm away, stamped gap
\* microseconds after the newest frame of the history
VelAddFrame(d, gap) ==
  LET fr == [NoFrame EXCEPT
               !.distance = d, !.strength = MIN_STRENGTH_THRESHOLD,
               !.timestamp = (velocity_calc.history[0].timestamp + gap) % MicrosMod,
               !.valid = TRUE]
  IN  /\ vobs.phase = "calc"
      /\ velocity_calc' = addFrame(velocity_calc, fr)
      /\ vobs' = [vobs EXCEPT !.phase = "added", !.frames = @ + 1]
      /\ UNCHANGED <<vel_ret, core_comm, perf_metrics>>

\* A velocity-error flag that, once set, stays set (mutant).
VelCalculate_latched ==
  LET r     == calculateVelocity(velocity_calc, now)
      newly == r.flag = "set" /\ "VELOCITY_CALC_ERROR" \notin core_comm.error_flags
  IN  /\ vobs.phase = "added"
      /\ mutex.comm = Free /\ mutex.perf = Free
      /\ velocity_calc' = r.calc
      /\ vel_ret' = r.ret
      /\ core_comm' =
           [core_comm EXCEPT !.error_flags =
              CASE r.flag = "set"   -> @ \cup {"VELOCITY_CALC_ERROR"}
                [] OTHER            -> @]
      /\ perf_metrics' =
           [perf_metrics EXCEPT !.velocity_calc_errors =
              IF newly THEN @ + 1 ELSE @]
      /\ vobs' = [vobs EXCEPT !.phase = "calc", !.calls = @ + 1,
                              !.prior_errors = velocity_calc.error_count]

\* float calculated_velocity = velocity_calc.calculateVelocity()
VelCalculate ==
  LET r     == calculateVelocity(velocity_calc, now)
      newly == r.flag = "set" /\ "VELOCITY_CALC_ERROR" \notin core_comm.error_flags
  IN  /\ vobs.phase = "added"
      /\ mutex.comm = Free /\ mutex.perf = Free
      /\ velocity_calc' = r.calc
      /\ vel_ret' = r.ret
      /\ core_comm' =
           [core_comm EXCEPT !.error_flags =
              CASE r.flag = "set"   -> @ \cup {"VELOCITY_CALC_ERROR"}
                [] r.flag = "clear" -> @ \ {"VELOCITY_CALC_ERROR"}
                [] OTHER            -> @]
      /\ perf_metrics' =
           [perf_metrics EXCEPT !.velocity_calc_errors =
              IF newly THEN @ + 1 ELSE @]
      /\ vobs' = [vobs EXCEPT !.phase = "calc", !.calls = @ + 1,
                              !.prior_errors = velocity_calc.error_count]

\* Histories the calculator can hold when a frame has just been added: the
\* newest frame at 100 cm; entry i is older by base + step * i microseconds
\* and nearer by a difference chosen for the entries the loop samples.
VelNewestDistance == MIN_DISTANCE_CM + 93
VelSampled == {2, 4, 6, 8, 10}
VelDiffs == {0, 1, 2, 0 - 20}
VelTimings ==
  {<<100000, 0, 1000>>, <<100000, 0, 500>>, <<20000, 36000, 1000>>,
   <<100000, 0, 8000>>, <<100000, 0, 12000>>, <<100000, 0, 17000>>,
   <<100000, 0, 25000>>}
VelCounts == {4, MAX_HISTORY}
VelPriors == {[error_count |-> 0, last_velocity |-> VelZero],
              [error_count |-> 10, last_velocity |-> Vel(0 - 20, 40000)]}

VelHistory(timing, diffs, n) ==
  [i \in 0..(MAX_HISTORY - 1) |->
     IF i >= n THEN NoFrame
     ELSE [NoFrame EXCEPT
             !.distance = VelNewestDistance
                            - (IF i \in VelSampled THEN diffs[i]
                               ELSE IF i > 10 /\ i % 2 = 0 THEN 0 - 20 ELSE 0),
             !.strength = MIN_STRENGTH_THRESHOLD,
             !.timestamp =
                IF i = 0 THEN timing[1]
                ELSE (timing[1] - (timing[2] + timing[3] * i) + MicrosMod)
                       % MicrosMod,
             !.valid = TRUE]]

\* Time explored since the first step.
Uptime == Elapsed32(obs.boot, now)

\* initializePinsCore1 has run, no frame has been processed yet
PipeInit ==
  /\ frame = [distance |-> 0, strength |-> 0]
  /\ calculated_velocity = Rat(0, 1)
  /\ switch_code = 0
  /\ raw_trigger = FALSE
  /\ last_trigger_state = FALSE
  /\ pin = "HIGH"
  /\ neo_flash = FALSE
  /\ last_switch_read = 0

CommInit == core_comm = CoreCommInit

ClassInit == TrigInit /\ PipeInit /\ CommInit /\ CfgInit /\ QueueInit /\ FrameInit /\ OtherInit

TickNext ==
  \E raw \in BOOLEAN, dt \in TickSteps :
    /\ Uptime + dt <= MaxTickTime
    /\ DebounceCall(raw, dt)
    /\ UNCHANGED <<calls, pipeVars, commVars, cfgVars, bufVars, coreVars, frameVars, otherVars>>

SpecTick == ClassInit /\ [][TickNext]_vars

DebounceNext ==
  \E raw \in BOOLEAN, dt \in DebounceSteps :
    /\ calls < MaxDebounceCalls
    /\ DebounceCall(raw, dt)
    /\ calls' = calls + 1
    /\ UNCHANGED <<pipeVars, commVars, cfgVars, bufVars, coreVars, frameVars, otherVars>>

SpecDebounce == ClassInit /\ [][DebounceNext]_vars

LatchNext ==
  \E ev \in BOOLEAN, dt \in LatchSteps :
    /\ calls < MaxLatchCalls
    /\ LatchCall(ev, dt)
    /\ UNCHANGED <<pipeVars, commVars, cfgVars, bufVars, coreVars, frameVars, otherVars>>

SpecLatch == ClassInit /\ [][LatchNext]_vars

-----------------------------------------------------------------------------
(* Core 1, RUNNING mode: the per-frame body of processIncomingFrames *)

Level(final_trigger) == IF final_trigger THEN "LOW" ELSE "HIGH"

\* The output driven from the debounced signal, bypassing the latch (mutant).
ProcessFrame_nolatch(fr, v, dt, dt2) ==
  LET t1  == (now + dt) % UINT32_MOD
      t2  == (t1 + dt2) % UINT32_MOD
      sw  == core_comm.switch_code
      raw == RawTrigger(currentConfig, sw, fr, v)
      d2  == DebouncerUpdate(deb, raw, t1)
      debounced_trigger == DebouncerOutput(d2)
      l2  == LatchUpdate(latch, debounced_trigger, t2)
      final_trigger == debounced_trigger
  IN  /\ calls' = calls + 1
      /\ frame' = fr
      /\ calculated_velocity' = v
      /\ switch_code' = sw
      /\ raw_trigger' = raw
      /\ deb' = d2
      /\ deb_ret' = debounced_trigger
      /\ call_in' = debounced_trigger
      /\ latch' = l2
      /\ latch_ret' = LatchOutput(l2)
      /\ now' = t2
      /\ pin' = Level(final_trigger)
      /\ neo_flash' = (neo_flash \/ (final_trigger /\ ~last_trigger_state))
      /\ last_trigger_state' = final_trigger
      /\ core_comm' = [core_comm EXCEPT !.trigger_output = final_trigger,
                                        !.velocity = v,
                                        !.distance = fr.distance,
                                        !.strength = fr.strength]
      /\ obs' = [ObsLatch(obs, latch_ret, LatchOutput(l2), t2) EXCEPT
                   !.t_first = IF calls = 0 THEN t1 ELSE @]
      /\ UNCHANGED <<last_switch_read, cfgVars, bufVars, coreVars, frameVars, otherVars>>

\* One iteration of the while loop of processIncomingFrames on the popped
\* frame fr, whose velocity calculateVelocity returned as v.  The debouncer
\* reads millis() dt ms after the previous read, the latch dt2 ms later.
ProcessFrame(fr, v, dt, dt2) ==
  LET t1  == (now + dt) % UINT32_MOD
      t2  == (t1 + dt2) % UINT32_MOD
      sw  == core_comm.switch_code
      raw == RawTrigger(currentConfig, sw, fr, v)
      d2  == DebouncerUpdate(deb, raw, t1)
      debounced_trigger == DebouncerOutput(d2)
      l2  == LatchUpdate(latch, debounced_trigger, t2)
      final_trigger == LatchOutput(l2)
  IN  /\ calls' = calls + 1
      /\ frame' = fr
      /\ calculated_velocity' = v
      /\ switch_code' = sw
      /\ raw_trigger' = raw
      /\ deb' = d2
      /\ deb_ret' = debounced_trigger
      /\ call_in' = debounced_trigger
      /\ latch' = l2
      /\ latch_ret' = final_trigger
      /\ now' = t2
      /\ pin' = Level(final_trigger)
      /\ neo_flash' = (neo_flash \/ (final_trigger /\ ~last_trigger_state))
      /\ last_trigger_state' = final_trigger
      /\ core_comm' = [core_comm EXCEPT !.trigger_output = final_trigger,
                                        !.velocity = v,
                                        !.distance = fr.distance,
                                        !.strength = fr.strength]
      /\ obs' = [ObsLatch(obs, latch_ret, final_trigger, t2) EXCEPT
                   !.t_first = IF calls = 0 THEN t1 ELSE @]
      /\ UNCHANGED <<last_switch_read, cfgVars, bufVars, coreVars, frameVars, otherVars>>

SWITCH_READ_INTERVAL_MS == 10

\* loop1_handler, RUNNING: core_comm.switch_code = readSwitchCode(), at most
\* every 10 ms; code is what the three switch pins read.
ReadSwitch(code, dt) ==
  LET t == (now + dt) % UINT32_MOD
  IN  /\ safeMillisElapsed(last_switch_read, t) >= SWITCH_READ_INTERVAL_MS
      /\ core_comm' = [core_comm EXCEPT !.switch_code = code]
      /\ last_switch_read' = t
      /\ now' = t
      /\ UNCHANGED <<deb, latch, deb_ret, latch_ret, call_in, calls, obs,
                     frame, calculated_velocity, switch_code, raw_trigger,
                     last_trigger_state, pin, neo_flash, cfgVars, bufVars,
                     coreVars, frameVars, otherVars>>

\* Bounds and inputs of the pipeline exploration
MaxPipeFrames == 2
MaxE2ETime == 3035

PipeSteps == {debounce_on_ms, latch_duration_ms}
PipeLatchLag == {0, 1}
PipeSwitches == {0, 7}
PipeDistances == {50, 51, 700, 701}
PipeVelocities == {Rat(0 - 4401, 2), Rat(0 - 2200, 1), Rat(0 - 250, 1),
                   Rat(0 - 499, 2)}

\* The configuration after startup: the defaults, or a stored configuration
\* saved through the configuration protocol with the velocity trigger off.
PipeConfigs == {DefaultConfig,
                [DefaultConfig EXCEPT !.use_velocity_trigger = FALSE]}

PipeStart ==
  /\ TrigInit /\ PipeInit /\ CommInit /\ QueueInit /\ FrameInit /\ StoreInit
  /\ OtherInit
  /\ currentConfig \in PipeConfigs

PipeNext ==
  \/ \E d \in PipeDistances, v \in PipeVelocities, dt \in PipeSteps,
        dt2 \in PipeLatchLag :
       /\ calls < MaxPipeFrames
       /\ ProcessFrame([distance |-> d, strength |-> MIN_STRENGTH_THRESHOLD], v, dt, dt2)
  \/ \E code \in PipeSwitches :
       /\ calls < MaxPipeFrames
       /\ ReadSwitch(code, 0)

SpecPipe == PipeStart /\ [][PipeNext]_vars

\* End-to-end scenario: switch position 0, threshold 50 cm, velocity
\* triggering disabled, a frame with distance 45 cm every millisecond.
E2EDistance == DefaultConfig.distance_thresholds[0] - 5

E2EStart ==
  /\ TrigInit /\ PipeInit /\ CommInit /\ QueueInit /\ FrameInit /\ StoreInit
  /\ OtherInit
  /\ currentConfig = [DefaultConfig EXCEPT !.use_velocity_trigger = FALSE]

E2ENext ==
  /\ (calls = 0 \/ Elapsed32(obs.t_first, now) < MaxE2ETime)
  /\ ProcessFrame([distance |-> E2EDistance, strength |-> MIN_STRENGTH_THRESHOLD],
                  Rat(0, 1), 1, 0)

SpecE2E == E2EStart /\ [][E2ENext]_vars

\* What the queue operations leave alone, and what the steps of
\* processLidarSerial and the sensor leave alone.
outsideQueue == <<trigVars, pipeVars, cfgVars, frameVars, otherVars>>
outsideFrame == <<deb, latch, deb_ret, latch_ret, call_in, calls, obs, pipeVars,
                  cfgVars, bufVars, perf_metrics, qobs, otherVars>>
outsideConfig == <<trigVars, pipeVars, bufVars, coreVars, frameVars, otherVars>>

\* The two cores running the queue operations, interleaved step by step:
\* Core 0 pushes and flushes, Core 1 pops.
QueueNext ==
  \/ PushCall /\ UNCHANGED outsideQueue
  \/ PushEnter /\ UNCHANGED outsideQueue
  \/ PushCheck /\ UNCHANGED outsideQueue
  \/ PushCopy1 /\ UNCHANGED outsideQueue
  \/ PushCopy2 /\ UNCHANGED outsideQueue
  \/ PushHead /\ UNCHANGED outsideQueue
  \/ PushCountLoad /\ UNCHANGED outsideQueue
  \/ PushCountStore /\ UNCHANGED outsideQueue
  \/ PushExit /\ UNCHANGED outsideQueue
  \/ PushPerfEnter /\ UNCHANGED outsideQueue
  \/ PushPerfBody /\ UNCHANGED outsideQueue
  \/ RecvEnter /\ UNCHANGED outsideQueue
  \/ RecvBody /\ UNCHANGED outsideQueue
  \/ DropEnter /\ UNCHANGED outsideQueue
  \/ DropBody /\ UNCHANGED outsideQueue
  \/ FlushCall /\ UNCHANGED outsideQueue
  \/ FlushEnter /\ UNCHANGED outsideQueue
  \/ FlushCount /\ UNCHANGED outsideQueue
  \/ FlushTail /\ UNCHANGED outsideQueue
  \/ FlushHead /\ UNCHANGED outsideQueue
  \/ PopCall /\ UNCHANGED outsideQueue
  \/ PopEnter /\ UNCHANGED outsideQueue
  \/ PopCheck /\ UNCHANGED outsideQueue
  \/ PopCopy1 /\ UNCHANGED outsideQueue
  \/ PopCopy2 /\ UNCHANGED outsideQueue
  \/ PopTail /\ UNCHANGED outsideQueue
  \/ PopCountLoad /\ UNCHANGED outsideQueue
  \/ PopCountStore /\ UNCHANGED outsideQueue
  \/ PopExit /\ UNCHANGED outsideQueue
  \/ ProcEnter /\ UNCHANGED outsideQueue
  \/ ProcBody /\ UNCHANGED outsideQueue
  \/ \E c \in Cores : SetFlagEnter(c) /\ UNCHANGED outsideQueue
  \/ \E c \in Cores : SetFlagBody(c) /\ UNCHANGED outsideQueue
  \/ \E c \in Cores : SetFlagPerf(c) /\ UNCHANGED outsideQueue
  \/ \E c \in Cores : SetFlagPerfExit(c) /\ UNCHANGED outsideQueue
  \/ \E c \in Cores : SetFlagExit(c) /\ UNCHANGED outsideQueue

QueueStart ==
  TrigInit /\ PipeInit /\ CommInit /\ CfgInit /\ QueueInit /\ FrameInit /\ OtherInit /\ now = 0

SpecQueue == QueueStart /\ [][QueueNext]_vars

\* Core 0 receiving frames from the sensor and pushing them, with Core 1 not
\* taking any out; Core 1 has finished its bring-up.  The reset after five
\* frames with a good checksum (ResetEnter, ResetBody) lies beyond MaxSent
\* transmissions and is not among the steps.
FrameStart ==
  /\ TrigInit /\ PipeInit /\ QueueInit /\ FrameInit /\ RunningInit /\ CfgInit
  /\ now = UINT32_MOD - WrapLead
  /\ core_comm = [CoreCommInit EXCEPT !.core1_ready = TRUE]

FrameNext ==
  \/ \E b \in Transmissions : Transmit(b) /\ UNCHANGED outsideFrame
  \/ \E k \in ArriveChunks : Arrive(k) /\ UNCHANGED outsideFrame
  \/ LidarSerial /\ UNCHANGED outsideFrame
  \/ FrameGood /\ UNCHANGED outsideFrame
  \/ FrameParse /\ UNCHANGED outsideFrame
  \/ StampEnter /\ UNCHANGED outsideFrame
  \/ StampBody /\ UNCHANGED outsideFrame
  \/ OverflowEnter /\ UNCHANGED outsideFrame
  \/ OverflowBody /\ UNCHANGED outsideFrame
  \/ OverflowReport /\ UNCHANGED outsideFrame
  \/ SerialTail /\ UNCHANGED outsideFrame
  \/ PushEnter /\ UNCHANGED outsideQueue
  \/ PushCheck /\ UNCHANGED outsideQueue
  \/ PushCopy1 /\ UNCHANGED outsideQueue
  \/ PushCopy2 /\ UNCHANGED outsideQueue
  \/ PushHead /\ UNCHANGED outsideQueue
  \/ PushCountLoad /\ UNCHANGED outsideQueue
  \/ PushCountStore /\ UNCHANGED outsideQueue
  \/ PushExit /\ UNCHANGED outsideQueue
  \/ PushPerfEnter /\ UNCHANGED outsideQueue
  \/ PushPerfBody /\ UNCHANGED outsideQueue
  \/ RecvEnter /\ UNCHANGED outsideQueue
  \/ RecvBody /\ UNCHANGED outsideQueue
  \/ DropEnter /\ UNCHANGED outsideQueue
  \/ DropBody /\ UNCHANGED outsideQueue
  \/ SetFlagEnter("c0") /\ UNCHANGED outsideQueue
  \/ SetFlagBody("c0") /\ UNCHANGED outsideQueue
  \/ SetFlagPerf("c0") /\ UNCHANGED outsideQueue
  \/ SetFlagPerfExit("c0") /\ UNCHANGED outsideQueue
  \/ SetFlagExit("c0") /\ UNCHANGED outsideQueue

SpecFrame == FrameStart /\ [][FrameNext]_vars

\* Core 0 framing the sensor's bytes while the clock moves on between two
\* calls of processLidarSerial, far enough for the frame timeout.  The first
\* call after the start makes the once-a-second performance update, with the
\* frame counters starting at one of FrameCounts.
MaxFramingSent == 2       \* sensor transmissions explored by SpecFraming
MaxFramingTime == 12      \* ms explored by SpecFraming after its start
FramingSteps == {4}       \* gaps between two calls, ms
FrameCounts == {0, 500, 3001}

FramingStart ==
  /\ TrigInit /\ PipeInit /\ QueueInit /\ RunningInit /\ CfgInit
  /\ now = UINT32_MOD - WrapLead
  /\ core_comm = [CoreCommInit EXCEPT !.core1_ready = TRUE]
  /\ now_us = 0
  /\ wire = <<>>
  /\ rx = <<>>
  /\ \E n \in FrameCounts : ser = [SerInit EXCEPT !.valid_frames = n]
  /\ timing_info = [adaptive_timeout_us |-> FRAME_TIMEOUT_US,
                    frames_per_second |-> 0]
  /\ fobs = [sent |-> 0, collected |-> <<>>, decided |-> FALSE,
             offered |-> FALSE]

FramingTransmit(b) == fobs.sent < MaxFramingSent /\ Transmit(b)

\* millis() and micros() move on by dt ms while Core 0 is between two calls.
FramingTick(dt) ==
  /\ pc["c0"] = "idle"
  /\ Elapsed32(UINT32_MOD - WrapLead, now) + dt <= MaxFramingTime
  /\ now' = (now + dt) % UINT32_MOD
  /\ UNCHANGED <<deb, latch, deb_ret, latch_ret, call_in, calls, obs, pipeVars,
                 commVars, cfgVars, bufVars, coreVars, frameVars, otherVars>>

FramingNext ==
  \/ \E b \in Transmissions : FramingTransmit(b) /\ UNCHANGED outsideFrame
  \/ \E k \in ArriveChunks : Arrive(k) /\ UNCHANGED outsideFrame
  \/ \E dt \in FramingSteps : FramingTick(dt)
  \/ LidarSerial /\ UNCHANGED outsideFrame
  \/ FrameGood /\ UNCHANGED outsideFrame
  \/ FrameParse /\ UNCHANGED outsideFrame
  \/ StampEnter /\ UNCHANGED outsideFrame
  \/ StampBody /\ UNCHANGED outsideFrame
  \/ SerialTail /\ UNCHANGED outsideFrame
  \/ PushEnter /\ UNCHANGED outsideQueue
  \/ PushCheck /\ UNCHANGED outsideQueue
  \/ PushCopy1 /\ UNCHANGED outsideQueue
  \/ PushCopy2 /\ UNCHANGED outsideQueue
  \/ PushHead /\ UNCHANGED outsideQueue
  \/ PushCountLoad /\ UNCHANGED outsideQueue
  \/ PushCountStore /\ UNCHANGED outsideQueue
  \/ PushExit /\ UNCHANGED outsideQueue
  \/ PushPerfEnter /\ UNCHANGED outsideQueue
  \/ PushPerfBody /\ UNCHANGED outsideQueue
  \/ RecvEnter /\ UNCHANGED outsideQueue
  \/ RecvBody /\ UNCHANGED outsideQueue
  \/ SetFlagEnter("c0") /\ UNCHANGED outsideQueue
  \/ SetFlagBody("c0") /\ UNCHANGED outsideQueue
  \/ SetFlagPerf("c0") /\ UNCHANGED outsideQueue
  \/ SetFlagPerfExit("c0") /\ UNCHANGED outsideQueue
  \/ SetFlagExit("c0") /\ UNCHANGED outsideQueue

SpecFraming == FramingStart /\ [][FramingNext]_vars

\* Core 1 executing GUI commands in configuration mode.
ConfigNext ==
  \/ \E pos \in GuiPositions, val \in GuiDistances :
        GuiSetDistance(pos, val) /\ UNCHANGED outsideConfig
  \/ \E type \in {"m", "x"}, pos \in GuiPositions, val \in GuiVelocities :
        GuiSetVelocity(type, pos, val) /\ UNCHANGED outsideConfig
  \/ \E outc \in WriteOutcomes, outg \in WriteOutcomes :
        saveConfiguration(outc, outg) /\ UNCHANGED outsideConfig

SpecConfig == ClassInit /\ [][ConfigNext]_vars

\* Core 1 from power-up: the stored configuration is loaded, then GUI
\* commands edit and save the active configuration.
BootStart ==
  /\ TrigInit /\ PipeInit /\ CommInit /\ QueueInit /\ FrameInit /\ OtherInit /\ now = 0
  /\ currentConfig = ZeroConfig
  /\ runtimeGlobals = DefaultGlobals
  /\ storage \in [config : StoredFiles, globals : {NoFile}]
  /\ cfg_ret = FALSE
  /\ cobs = [cmds |-> 0, saves |-> 0, last |-> "boot",
             mount |-> "mounted", open |-> "opened"]

BootNext ==
  \/ \E mount \in MountOutcomes, open \in OpenOutcomes :
        loadConfiguration(mount, open) /\ UNCHANGED outsideConfig
  \/ \E pos \in BootPositions, val \in GuiDistances :
        cobs.last # "boot" /\ GuiSetDistance(pos, val) /\ UNCHANGED outsideConfig
  \/ \E type \in {"m", "x"}, pos \in BootPositions, val \in GuiVelocities :
        cobs.last # "boot" /\ GuiSetVelocity(type, pos, val)
        /\ UNCHANGED outsideConfig
  \/ \E mode \in GuiModes :
        cobs.last # "boot" /\ GuiSetMode(mode) /\ UNCHANGED outsideConfig
  \/ \E debug_val \in GuiDebugValues :
        cobs.last # "boot" /\ GuiSetDebug(debug_val) /\ UNCHANGED outsideConfig
  \/ \E outc \in WriteOutcomes, outg \in WriteOutcomes :
        cobs.last # "boot" /\ saveConfiguration(outc, outg)
        /\ UNCHANGED outsideConfig

SpecBoot == BootStart /\ [][BootNext]_vars

\* Core 1 calling the velocity calculator on the frames it pops.
outsideVel == <<trigVars, pipeVars, cfgVars, bufVars, mutex, pc, loc, qobs,
                frameVars, restVars>>

VelStart ==
  /\ TrigInit /\ PipeInit /\ CommInit /\ CfgInit /\ QueueInit /\ FrameInit
  /\ now = 0
  /\ \E timing \in VelTimings, diffs \in [VelSampled -> VelDiffs],
        n \in VelCounts, prior \in VelPriors :
       velocity_calc =
         [history |-> VelHistory(timing, diffs, n), count |-> n,
          last_velocity |-> prior.last_velocity,
          error_count |-> prior.error_count, last_movement_time |-> 0]
  /\ vel_ret = VelZero
  /\ vobs = [phase |-> "added", frames |-> 0, calls |-> 0, prior_errors |-> 0]
  /\ RestInit

VelNext ==
  \/ VelCalculate /\ UNCHANGED outsideVel
  \/ \E d \in {VelNewestDistance - 1}, gap \in {1000} :
        /\ vobs.frames < MaxVelFrames
        /\ VelAddFrame(d, gap)
        /\ UNCHANGED outsideVel

SpecVelocity == VelStart /\ [][VelNext]_vars

\* Core 1 calling the calculator on frames that come at regular gaps and
\* after pauses longer than the oldest pair it accepts.  The history at the
\* start holds frames 8 ms apart, each 20 cm farther than the one before.
MaxHoldFrames == 13     \* frames added after the first calculateVelocity call
HoldGaps == {5000, 60000}
HoldCounts == {5, MAX_HISTORY}

HoldStart ==
  /\ TrigInit /\ PipeInit /\ CommInit /\ CfgInit /\ QueueInit /\ FrameInit
  /\ now = 0
  /\ \E n \in HoldCounts :
       velocity_calc =
         [history |-> VelHistory(<<100000, 0, 8000>>,
                                 [i \in VelSampled |-> 0 - 20], n),
          count |-> n, last_velocity |-> VelZero, error_count |-> 0,
          last_movement_time |-> 0]
  /\ vel_ret = VelZero
  /\ vobs = [phase |-> "added", frames |-> 0, calls |-> 0, prior_errors |-> 0]
  /\ RestInit

HoldNext ==
  \/ VelCalculate /\ UNCHANGED outsideVel
  \/ \E gap \in HoldGaps :
        /\ vobs.frames < MaxHoldFrames
        /\ VelAddFrame(VelNewestDistance, gap)
        /\ UNCHANGED outsideVel

SpecHold == HoldStart /\ [][HoldNext]_vars

\* The calculator filled from empty, frame by frame, past its capacity: the
\* frames come 5 ms apart from a target that stands or moves away.
MaxHistFrames == 17     \* frames added
HistStamp(n) == 5000 * n
HistDistances == VelNewestDistance..(VelNewestDistance + 3)

HistStart ==
  /\ TrigInit /\ PipeInit /\ CommInit /\ CfgInit /\ QueueInit /\ FrameInit
  /\ now = 0
  /\ VelInit
  /\ RestInit

HistNext ==
  \/ VelCalculate /\ UNCHANGED outsideVel
  \/ \E d \in HistDistances :
        /\ vobs.frames < MaxHistFrames
        /\ d >= velocity_calc.history[0].distance
        /\ VelAddFrame(d, HistStamp(1))
        /\ UNCHANGED outsideVel

SpecHistory == HistStart /\ [][HistNext]_vars

\* The elapsed-time helpers called on timer values from every region of the
\* counter.
outsideElapsed == <<trigVars, pipeVars, commVars, cfgVars, bufVars, coreVars,
                    frameVars, velVars, lockVars, c0Vars, l1Vars>>

ElapsedNext ==
  \/ \E start \in ElapsedTimes(UINT32_MOD), current \in ElapsedTimes(UINT32_MOD) :
        MillisElapsedCall(start, current) /\ UNCHANGED outsideElapsed
  \/ \E start \in ElapsedTimes(MicrosMod), current \in ElapsedTimes(MicrosMod) :
        MicrosElapsedCall(start, current) /\ UNCHANGED outsideElapsed

SpecElapsed == ClassInit /\ [][ElapsedNext]_vars

\* The two loops reduced to their mutex acquisitions, interleaved step by
\* step.
outsideLocks == <<trigVars, pipeVars, commVars, cfgVars, bufVars, pc, loc,
                  perf_metrics, qobs, frameVars, velVars, elVars, c0Vars,
                  l1Vars>>

LocksNext ==
  \/ \E c \in Cores : \E prog \in LockPrograms(c) :
        LockBegin(c, prog) /\ UNCHANGED outsideLocks
  \/ \E c \in Cores : LockAcquire(c) /\ UNCHANGED outsideLocks
  \/ \E c \in Cores : LockRelease(c) /\ UNCHANGED outsideLocks

SpecLocks == ClassInit /\ [][LocksNext]_vars

\* Core 0's state machine and framing, Core 1's way to ready, and time.
\* Serial input that puts Core 1 into configuration mode is there when the
\* check for it begins or does not come.
outsideCore0 == <<deb, latch, deb_ret, latch_ret, call_in, calls, obs,
                  pipeVars, cfgVars, mutex, pc, loc, qobs, now_us, wire,
                  timing_info, fobs, velVars, elVars, lockVars, loop1, l1obs>>

Core0Next ==
  \/ \E late \in 0..1 :
        /\ Core0StateMachine(late)
        /\ UNCHANGED <<ser, core1_state, core1_state_timer, current_state>>
        /\ UNCHANGED outsideCore0
  \/ \E kind \in C0FrameKinds : Core0Frame(kind) /\ UNCHANGED outsideCore0
  \/ \E serial_input \in (IF now = core1_state_timer THEN BOOLEAN
                                                     ELSE {FALSE}) :
        Core1StateMachine(serial_input) /\ UNCHANGED outsideCore0
  \/ now < MaxC0Time /\ C0Tick /\ UNCHANGED outsideCore0

\* main_setup and setup1_handler at power-up
Core0Start == ClassInit /\ now = 0

SpecCore0 == Core0Start /\ [][Core0Next]_vars

\* A lasting outage in normal operation: no serial input reaches Core 1
\* during its start, the sensor delivers no frame that is pushed, both
\* loops keep running and time keeps advancing.  The millisecond counter
\* does not advance within a pass of Core 0's state machine.
OutageCore0 ==
  /\ Core0StateMachine(0)
  /\ UNCHANGED <<ser, core1_state, core1_state_timer, current_state>>
  /\ UNCHANGED outsideCore0

OutageFrame == Core0Frame("rejected") /\ UNCHANGED outsideCore0

OutageCore1 == Core1StateMachine(FALSE) /\ UNCHANGED outsideCore0

OutageTick == C0Tick /\ UNCHANGED outsideCore0

OutageNext ==
  \/ OutageCore0
  \/ OutageFrame
  \/ OutageCore1
  \/ OutageTick

SpecOutage ==
  /\ Core0Start
  /\ [][OutageNext]_vars
  /\ WF_vars(OutageCore0)
  /\ WF_vars(OutageCore1)
  /\ WF_vars(OutageTick)

-----------------------------------------------------------------------------
(* loop1_handler (Core 1) pass by pass, with Core 0 pushing frames.  A pass *)
(* runs processCore1StateMachine, then by current_state either discards     *)
(* the queue (STATE_CONFIG) or reads the switch and runs                    *)
(* processIncomingFrames (STATE_RUNNING).  atomicBufferPush, atomicBufferPop *)
(* and the body of the frame loop are one step each; Core 0 can push        *)
(* between any two of Core 1's steps.  Time passes until both cores have    *)
(* started: the passes explored are those of the millisecond that follows.  *)
(* l1obs: pushes - atomicBufferPush calls so far; removed - frames the      *)
(*   current pass has taken out of the queue; popped - distances of the     *)
(*   frames popped in STATE_RUNNING, in pop order; piped - distances of the *)
(*   frames run through the pipeline; state_changes - writes that changed   *)
(*   current_state.                                                         *)

MaxL1Pushes == 7       \* atomicBufferPush calls explored

MAX_FRAMES_PER_CYCLE == 5

\* velocity = dist_diff * 1000000 / time_diff, in cm/s
VelToRat(v) == Rat(v.dist_diff * 1000000, v.time_diff)

\* The frame of the n-th atomicBufferPush call: frames differ in distance.
Loop1Frame(n) ==
  [distance |-> MIN_DISTANCE_CM + n, strength |-> MIN_STRENGTH_THRESHOLD,
   temperature |-> 0, timestamp |-> micros, valid |-> TRUE]

\* Distance thresholds the GUI sets: below and above the frames' distances
Loop1Distances == {MIN_DISTANCE_CM, MIN_DISTANCE_CM + MaxL1Pushes}

\* Frames processed in configuration mode as well (mutant)
Loop1Branch_process(state) ==
  CASE state = "STATE_INIT" -> "idle"
    [] OTHER                -> "switch"

\* What the rest of a pass does, by current_state
Loop1Branch(state) ==
  CASE state = "STATE_CONFIG"  -> "gui"
    [] state = "STATE_RUNNING" -> "switch"
    [] OTHER                   -> "idle"

outsideLoop1 == <<deb, latch, deb_ret, latch_ret, call_in, calls, obs,
                  pipeVars, cfgVars, mutex, pc, loc, qobs, now_us, wire,
                  timing_info, fobs, velVars, elVars, lockVars>>

\* Core 0 in CORE0_READY with Core 1 ready: processLidarSerial has a valid
\* frame and calls atomicBufferPush (globals.cpp), which counts it as
\* received or as dropped.
Loop1Push ==
  LET success == buffer_count < FRAME_BUFFER_SIZE
      current_count == buffer_count + 1
      should_set_warning == current_count >= BUFFER_WARNING_THRESHOLD
      should_set_critical == current_count >= BUFFER_CRITICAL_THRESHOLD
  IN  /\ core0_state = "CORE0_READY"
      /\ core_comm.core1_ready
      /\ l1obs.pushes < MaxL1Pushes
      /\ l1obs' = [l1obs EXCEPT !.pushes = @ + 1]
      /\ IF success
           THEN /\ frame_buffer' = [frame_buffer EXCEPT
                                      ![buffer_head] = Loop1Frame(l1obs.pushes)]
                /\ buffer_head' = (buffer_head + 1) % FRAME_BUFFER_SIZE
                /\ buffer_count' = current_count
                /\ UNCHANGED buffer_tail
                /\ perf_metrics' =
                     [perf_metrics EXCEPT !.max_buffer_utilization =
                        IF current_count > @ THEN current_count ELSE @]
                /\ core_comm' =
                     [core_comm EXCEPT
                        !.frames_received = @ + 1,
                        !.last_frame_time = now,
                        !.error_flags =
                           IF ~should_set_warning
                             THEN @ \ {"BUFFER_WARNING", "BUFFER_CRITICAL"}
                             ELSE IF should_set_critical
                               THEN @ \cup {"BUFFER_WARNING", "BUFFER_CRITICAL"}
                               ELSE @ \cup {"BUFFER_WARNING"}]
                /\ c0obs' = [c0obs EXCEPT !.done = RECOVERY_LEVEL_NONE,
                                          !.idle = 0,
                                          !.level = RECOVERY_LEVEL_NONE]
           ELSE /\ core_comm' =
                     [core_comm EXCEPT
                        !.dropped_frames = Counted(@),
                        !.error_flags = @ \cup {"BUFFER_OVERFLOW"}]
                /\ c0obs' = [c0obs EXCEPT !.done = RECOVERY_LEVEL_NONE]
                /\ UNCHANGED <<bufVars, perf_metrics>>
      /\ UNCHANGED <<now, rx, ser, core0_state, core0_state_timer, core0_static,
                     core1_state, core1_state_timer, current_state, loop1>>

\* loop1_handler while Core 1 starts: processCore1StateMachine, then the
\* branch on current_state
Loop1StateMachine(serial_input) ==
  /\ loop1.at = "idle"
  /\ core1_state # "done"
  /\ Core1StateMachine(serial_input)
  /\ loop1' = [Loop1Idle EXCEPT !.at = Loop1Branch(current_state')]
  /\ l1obs' = [l1obs EXCEPT
                 !.removed = 0,
                 !.state_changes = IF current_state' # current_state
                                     THEN @ + 1 ELSE @]

\* GUI commands processed in every mode (mutant)
Loop1Enter_gui ==
  /\ loop1.at = "idle"
  /\ core1_state = "done"
  /\ current_state # "STATE_INIT"
  /\ loop1' = [Loop1Idle EXCEPT !.at = "gui"]
  /\ l1obs' = [l1obs EXCEPT !.removed = 0]
  /\ UNCHANGED <<now, core_comm, bufVars, perf_metrics, rx, ser, c0Vars,
                 current_state>>

\* loop1_handler once Core 1 has started: the state machine has nothing left
\* to do
Loop1Enter ==
  /\ loop1.at = "idle"
  /\ core1_state = "done"
  /\ current_state # "STATE_INIT"
  /\ loop1' = [Loop1Idle EXCEPT !.at = Loop1Branch(current_state)]
  /\ l1obs' = [l1obs EXCEPT !.removed = 0]
  /\ UNCHANGED <<now, core_comm, bufVars, perf_metrics, rx, ser, c0Vars,
                 current_state>>

\* atomicBufferPop (globals.cpp) as one step, the frame going to loop1.frame
\* and Core 1 on to found or to empty
atomicBufferPop(found, empty) ==
  LET success == buffer_count > 0
      count == buffer_count - 1
  IN  IF success
        THEN /\ loop1' = [loop1 EXCEPT !.frame = frame_buffer[buffer_tail],
                                       !.at = found]
             /\ buffer_tail' = (buffer_tail + 1) % FRAME_BUFFER_SIZE
             /\ buffer_count' = count
             /\ core_comm' =
                  [core_comm EXCEPT
                     !.error_flags =
                        IF count < BUFFER_WARNING_THRESHOLD
                          THEN @ \ {"BUFFER_WARNING", "BUFFER_CRITICAL"}
                          ELSE @,
                     !.frames_processed = @ + 1]
             /\ UNCHANGED <<frame_buffer, buffer_head>>
        ELSE /\ loop1' = [loop1 EXCEPT !.at = empty]
             /\ UNCHANGED <<bufVars, core_comm>>

\* STATE_CONFIG: processGuiCommands() with no command waiting
Loop1NoCommand ==
  /\ loop1.at = "gui"
  /\ loop1' = [loop1 EXCEPT !.at = "discard"]
  /\ UNCHANGED <<cfgVars, core_comm>>

\* STATE_CONFIG: processGuiCommands() executing a command that sets a
\* distance threshold or the trigger mode
Loop1Command ==
  /\ loop1.at = "gui"
  /\ loop1' = [loop1 EXCEPT !.at = "discard"]
  /\ \/ \E val \in Loop1Distances : GuiSetDistance(0, val)
     \/ \E mode \in {1, 2} : GuiSetMode(mode)

\* STATE_CONFIG: while (atomicBufferPop(discard_frame)) {}
Loop1Discard ==
  /\ loop1.at = "discard"
  /\ atomicBufferPop("discard", "idle")
  /\ l1obs' = [l1obs EXCEPT !.removed = IF buffer_count > 0 THEN @ + 1 ELSE @]
  /\ UNCHANGED <<now, perf_metrics, rx, ser, c0Vars, current_state>>

\* STATE_RUNNING: core_comm.switch_code = readSwitchCode(), at most every
\* 10 ms; code is what the three switch pins read.
Loop1Switch(code) ==
  LET due == safeMillisElapsed(last_switch_read, now) >= SWITCH_READ_INTERVAL_MS
  IN  /\ loop1.at = "switch"
      /\ loop1' = [loop1 EXCEPT !.at = "pop"]
      /\ core_comm' = [core_comm EXCEPT !.switch_code = IF due THEN code ELSE @]
      /\ last_switch_read' = IF due THEN now ELSE last_switch_read
      /\ UNCHANGED <<now, bufVars, perf_metrics, rx, ser, c0Vars, current_state,
                     l1obs>>

\* processIncomingFrames, the loop condition:
\* atomicBufferPop(frame) && frames_this_cycle < MAX_FRAMES_PER_CYCLE
Loop1Pop ==
  /\ loop1.at = "pop"
  /\ atomicBufferPop(IF loop1.frames_this_cycle < MAX_FRAMES_PER_CYCLE
                       THEN "body" ELSE "idle", "idle")
  /\ l1obs' = [l1obs EXCEPT
                 !.removed = IF buffer_count > 0 THEN @ + 1 ELSE @,
                 !.popped = IF buffer_count > 0
                              THEN Append(@, frame_buffer[buffer_tail].distance)
                              ELSE @]
  /\ UNCHANGED <<now, perf_metrics, rx, ser, c0Vars, current_state>>

\* processIncomingFrames, the loop body for the frame just popped
Loop1Body ==
  LET fr  == loop1.frame
      r   == calculateVelocity(addFrame(velocity_calc, fr), now)
      v   == VelToRat(r.ret)
      sw  == core_comm.switch_code
      raw == RawTrigger(currentConfig, sw, fr, v)
      d2  == DebouncerUpdate(deb, raw, now)
      debounced_trigger == DebouncerOutput(d2)
      l2  == LatchUpdate(latch, debounced_trigger, now)
      final_trigger == LatchOutput(l2)
      newly == r.flag = "set" /\ "VELOCITY_CALC_ERROR" \notin core_comm.error_flags
  IN  /\ loop1.at = "body"
      /\ loop1' = [loop1 EXCEPT !.at = "pop", !.frames_this_cycle = @ + 1]
      /\ l1obs' = [l1obs EXCEPT !.piped = Append(@, fr.distance)]
      /\ velocity_calc' = r.calc
      /\ vel_ret' = r.ret
      /\ perf_metrics' = [perf_metrics EXCEPT !.velocity_calc_errors =
                            IF newly THEN Counted(@) ELSE @]
      /\ calls' = calls + 1
      /\ frame' = [distance |-> fr.distance, strength |-> fr.strength]
      /\ calculated_velocity' = v
      /\ switch_code' = sw
      /\ raw_trigger' = raw
      /\ deb' = d2
      /\ deb_ret' = debounced_trigger
      /\ call_in' = debounced_trigger
      /\ latch' = l2
      /\ latch_ret' = final_trigger
      /\ pin' = Level(final_trigger)
      /\ neo_flash' = (neo_flash \/ (final_trigger /\ ~last_trigger_state))
      /\ last_trigger_state' = final_trigger
      /\ core_comm' =
           [core_comm EXCEPT
              !.error_flags =
                 CASE r.flag = "set"   -> @ \cup {"VELOCITY_CALC_ERROR"}
                   [] r.flag = "clear" -> @ \ {"VELOCITY_CALC_ERROR"}
                   [] OTHER            -> @,
              !.trigger_output = final_trigger,
              !.velocity = v,
              !.distance = fr.distance,
              !.strength = fr.strength]
      /\ UNCHANGED <<now, obs, last_switch_read, cfgVars, bufVars, mutex, pc, loc,
                     qobs, frameVars, vobs, elVars, lockVars, c0Vars,
                     current_state>>

\* What a GUI command in a pass leaves alone
outsideGui == <<trigVars, pipeVars, bufVars, coreVars, frameVars, velVars,
                elVars, lockVars, c0Vars, current_state, l1obs>>

\* What the steps of a pass other than the loop body leave alone
outsidePass == <<deb, latch, deb_ret, latch_ret, call_in, calls, obs, frame,
                 calculated_velocity, switch_code, raw_trigger,
                 last_trigger_state, pin, neo_flash, cfgVars, mutex, pc, loc,
                 qobs, now_us, wire, timing_info, fobs, velVars, elVars,
                 lockVars>>

Loop1Next ==
  \/ /\ Core0StateMachine(0)
     /\ UNCHANGED <<ser, core1_state, core1_state_timer, current_state>>
     /\ UNCHANGED outsideCore0
  \/ Loop1Push /\ UNCHANGED outsideLoop1
  \/ \E serial_input \in (IF now = core1_state_timer THEN BOOLEAN
                                                     ELSE {FALSE}) :
        Loop1StateMachine(serial_input) /\ UNCHANGED outsideLoop1
  \/ Loop1Enter /\ UNCHANGED outsideLoop1
  \/ Loop1NoCommand /\ UNCHANGED outsideGui
  \/ Loop1Command /\ UNCHANGED outsideGui
  \/ Loop1Discard /\ UNCHANGED outsideLoop1
  \/ \E code \in PipeSwitches : Loop1Switch(code) /\ UNCHANGED outsidePass
  \/ Loop1Pop /\ UNCHANGED outsideLoop1
  \/ Loop1Body
  \/ /\ core1_state # "done" \/ core0_state # "CORE0_READY"
     /\ C0Tick
     /\ UNCHANGED outsideCore0

SpecLoop1 == Core0Start /\ [][Loop1Next]_vars

\* Core 1 in RUNNING mode while the clock moves on between its passes, with
\* the velocity trigger off: every frame Core 0 pushes is closer than the
\* distance threshold, so the raw trigger is true for each frame processed.
MaxOutputPushes == 3     \* atomicBufferPush calls explored by SpecOutput
MaxOutputHolds == 2      \* hold times explored by SpecOutput after its start
\* gaps between two passes, ms
OutputSteps == {debounce_on_ms, latch_duration_ms}
\* the times of the passes: whole hold times after the start, and one
\* debounce delay later
OutputTimes ==
  {a * latch_duration_ms + b * debounce_on_ms : a \in 0..MaxOutputHolds,
                                                b \in 0..1}

OutputStart ==
  /\ TrigInit /\ PipeInit /\ QueueInit /\ FrameInit /\ StoreInit
  /\ VelInit /\ ElInit /\ LockInit /\ C0Running
  /\ now = 0
  /\ currentConfig = [DefaultConfig EXCEPT !.use_velocity_trigger = FALSE]
  /\ core_comm = [CoreCommInit EXCEPT !.core1_ready = TRUE,
                                      !.lidar_initialized = TRUE]
  /\ current_state = "STATE_RUNNING"
  /\ loop1 = Loop1Idle
  /\ l1obs = [pushes |-> 0, removed |-> 0, popped |-> <<>>, piped |-> <<>>,
              state_changes |-> 0]

OutputPush == l1obs.pushes < MaxOutputPushes /\ Loop1Push

\* The hold ended by the clock alone, between two passes (mutant).
OutputTick_release(dt) ==
  LET t == (now + dt) % UINT32_MOD
      l2 == LatchUpdate(latch, FALSE, t)
  IN  /\ loop1.at = "idle"
      /\ (now + dt) \in OutputTimes
      /\ now' = t
      /\ latch' = l2
      /\ pin' = Level(LatchOutput(l2))
      /\ UNCHANGED <<deb, deb_ret, latch_ret, call_in, calls, obs, frame,
                     calculated_velocity, switch_code, raw_trigger,
                     last_trigger_state, neo_flash, last_switch_read,
                     commVars, cfgVars, bufVars, coreVars, frameVars, otherVars>>

\* millis() moves on by dt ms while Core 1 is between two passes.
OutputTick(dt) ==
  /\ loop1.at = "idle"
  /\ (now + dt) \in OutputTimes
  /\ now' = (now + dt) % UINT32_MOD
  /\ UNCHANGED <<deb, latch, deb_ret, latch_ret, call_in, calls, obs, pipeVars,
                 commVars, cfgVars, bufVars, coreVars, frameVars, otherVars>>

OutputNext ==
  \/ OutputPush /\ UNCHANGED outsideLoop1
  \/ Loop1Enter /\ UNCHANGED outsideLoop1
  \/ \E code \in PipeSwitches : Loop1Switch(code) /\ UNCHANGED outsidePass
  \/ Loop1Pop /\ UNCHANGED outsideLoop1
  \/ Loop1Body
  \/ \E dt \in OutputSteps : OutputTick(dt)

SpecOutput == OutputStart /\ [][OutputNext]_vars

-----------------------------------------------------------------------------
(* C1 - Latch floor: from the call at which the latch output rises (t0)    *)
(* every call made less than 3000 ms after t0 returns true whatever its    *)
(* input, the first call at 3000 ms or more returns false (IDLE), and a    *)
(* call that finds the latch IDLE with a true input latches again.         *)
C1_LatchHolds ==
  /\ latch_ret <=> /\ obs.latched_at # NoTime
                   /\ Elapsed32(obs.latched_at, now) < latch_duration_ms
  /\ latch_ret <=> latch.state = "LATCHED"

C1_LatchFloor ==
  [][ /\ C1_LatchHolds'
      /\ (~latch_ret /\ call_in') => (latch_ret' /\ obs'.latched_at = now') ]_vars

\* the latch is still held 2999 ms after it engaged, its input being false
C1_Witness ==
  /\ latch_ret /\ ~call_in
  /\ obs.latched_at # NoTime
  /\ Elapsed32(obs.latched_at, now) = latch_duration_ms - 1

(* C2 - Debounce on-delay, negative case: while the samples seen are those *)
(* of one raw pulse of at most 29 ms the debounced output is never true;    *)
(* the output rises only at a call whose raw sample is true and has been    *)
(* true since a change at least 30 ms earlier.                              *)
C2_NoShortPulse ==
  [][ /\ (obs'.phase # "bad") => ~deb_ret'
      /\ (~deb_ret /\ deb_ret') =>
           (call_in' /\ obs'.chg # NoTime
                     /\ Elapsed32(obs'.chg, now') >= debounce_on_ms) ]_vars

\* a pulse sampled true over exactly 29 ms, then false, left the output false
C2_Witness ==
  /\ obs.phase = "post29"
  /\ ~deb_ret /\ ~call_in

(* C3 - Debounce on-delay, positive case: with raw true on every 1 ms tick *)
(* from its onset t0 (output false at t0), the output is false at every    *)
(* call before t0 + 30 ms and true at the call at t0 + 30 ms.              *)
C3_OnAtThirty ==
  obs.tick_on =>
    (deb_ret <=> Elapsed32(obs.tick_t0, now) >= debounce_on_ms)

\* the call at t0 + 30 ms has just returned true
C3_Witness ==
  /\ obs.tick_on /\ deb_ret
  /\ obs.on_at = now
  /\ Elapsed32(obs.tick_t0, now) = debounce_on_ms

(* C4 - Debounce off-delay floor: the output falls only at a call made at  *)
(* least 50 ms after the last raw change and at least 20 ms after the      *)
(* output rose.                                                            *)
C4_OffFloor ==
  [][ (deb_ret /\ ~deb_ret') =>
        /\ ~call_in'
        /\ Elapsed32(obs'.chg, now') >= debounce_off_ms
        /\ Elapsed32(obs.on_at, now') >= min_pulse_ms ]_vars

\* the output has just fallen, exactly 50 ms after the raw change
C4_Witness ==
  /\ ~deb_ret /\ ~call_in /\ calls > 0
  /\ deb.last_state_time = now
  /\ Elapsed32(obs.chg, now) = debounce_off_ms

(* C5 - End-to-end scenario: with frames of 45 cm processed one per         *)
(* millisecond (switch 0, threshold 50 cm, velocity off), raw is true on    *)
(* every frame, the debounced signal is true from the frame 30 ms after the *)
(* first, the latch engages at that frame, the pin is LOW on every frame    *)
(* from +30 ms up to +3029 ms and is driven HIGH by the frame at +3030 ms.  *)
C5_EndToEnd ==
  calls > 0 =>
    LET k == Elapsed32(obs.t_first, now)
    IN  /\ raw_trigger
        /\ deb_ret <=> k >= debounce_on_ms
        /\ k < debounce_on_ms => (pin = "HIGH" /\ obs.latched_at = NoTime)
        /\ (k >= debounce_on_ms /\ k < debounce_on_ms + latch_duration_ms) =>
             /\ pin = "LOW"
             /\ Elapsed32(obs.t_first, obs.latched_at) = debounce_on_ms
        /\ k = debounce_on_ms + latch_duration_ms => pin = "HIGH"

\* the frame at +3030 ms has driven the pin HIGH
C5_Witness ==
  /\ calls > 0
  /\ Elapsed32(obs.t_first, now) = debounce_on_ms + latch_duration_ms
  /\ pin = "HIGH" /\ deb_ret

(* C8 - Trigger decision: on every processed frame raw is                   *)
(* (distance <= threshold[s]) and (velocity off or min[s] <= v <= max[s])   *)
(* for the switch position s read for that frame; the debouncer is fed raw, *)
(* the latch is fed the debounced signal, the pin is LOW iff the latch      *)
(* returns true, and core_comm.trigger_output takes that same value.        *)
C8_Decision ==
  LET s  == switch_code
      v  == calculated_velocity
      in_range == /\ v.num >= currentConfig.velocity_min_thresholds[s] * v.den
                  /\ v.num <= currentConfig.velocity_max_thresholds[s] * v.den
  IN  /\ raw_trigger <=>
           /\ frame.distance <= currentConfig.distance_thresholds[s]
           /\ (currentConfig.use_velocity_trigger => in_range)
      /\ pin = "LOW" <=> latch_ret
      /\ core_comm.trigger_output <=> latch_ret

C8_TriggerDecision ==
  [][ calls' = calls + 1 =>
        /\ C8_Decision'
        /\ switch_code' = core_comm.switch_code
        /\ deb'.last_raw_state = raw_trigger'
        /\ deb_ret' = deb'.current_state
        /\ latch_ret' = (latch'.state = "LATCHED")
        /\ latch.state = "IDLE" => (latch_ret' <=> deb_ret') ]_vars

\* a frame at the threshold of switch position 7, with the velocity at the
\* upper limit, has set raw and the output is active
C8_Witness ==
  /\ calls > 0 /\ switch_code = 7
  /\ currentConfig.use_velocity_trigger
  /\ frame.distance = currentConfig.distance_thresholds[7]
  /\ calculated_velocity = Rat(0 - 250, 1)
  /\ raw_trigger /\ pin = "LOW" /\ core_comm.trigger_output

\* A core is between the first and the last store of a queue update.
MidUpdate ==
  \/ pc["c0"] \in {"push_count_load", "push_count_store", "flush_tail", "flush_head"}
  \/ pc["c1"] \in {"pop_count_load", "pop_count_store"}

(* C6 - Queue bounds: under any interleaving of atomicBufferPush (Core 0),  *)
(* atomicBufferPop (Core 1) and the recovery flush, in every state          *)
(* 0 <= buffer_count <= FRAME_BUFFER_SIZE and buffer_head and buffer_tail   *)
(* are below FRAME_BUFFER_SIZE; and in every state in which no core is      *)
(* between the stores of one update made under buffer_mutex,                *)
(* buffer_head = (buffer_tail + buffer_count) mod FRAME_BUFFER_SIZE.        *)
C6_QueueBounds ==
  /\ buffer_count >= 0 /\ buffer_count <= FRAME_BUFFER_SIZE
  /\ buffer_head >= 0 /\ buffer_head < FRAME_BUFFER_SIZE
  /\ buffer_tail >= 0 /\ buffer_tail < FRAME_BUFFER_SIZE
  /\ ~MidUpdate =>
       buffer_head = (buffer_tail + buffer_count) % FRAME_BUFFER_SIZE

\* the ring is full, has wrapped, and a flush has happened before
C6_Witness ==
  /\ buffer_count = FRAME_BUFFER_SIZE
  /\ buffer_head = buffer_tail /\ buffer_head > 0
  /\ qobs.flushes > 0

IsPrefix(a, b) ==
  /\ Len(a) <= Len(b)
  /\ \A i \in 1..Len(a) : a[i] = b[i]

(* C7 - Queue FIFO and atomicity: as long as no flush has happened, the     *)
(* frames returned by successful pops are a prefix of the frames accepted   *)
(* by successful pushes, in order, and each returned frame is whole.        *)
C7_Fifo ==
  qobs.flushes = 0 =>
    /\ IsPrefix(qobs.popped, qobs.pushed)
    /\ \A i \in 1..Len(qobs.popped) : qobs.popped[i].valid

\* frames have been popped from a ring that wrapped around
C7_Witness ==
  /\ qobs.flushes = 0
  /\ Len(qobs.popped) > FRAME_BUFFER_SIZE
  /\ Len(qobs.pushed) > Len(qobs.popped)

\* The frame the framing machine collected last passes all three tests.
C9_Acceptable ==
  LET fd == fobs.collected
  IN  /\ (fd[1] + fd[2] + fd[3] + fd[4] + fd[5] + fd[6] + fd[7] + fd[8]) % 256
           = fd[9]
      /\ fd[3] + 256 * fd[4] >= 7
      /\ fd[3] + 256 * fd[4] <= 1200
      /\ fd[5] + 256 * fd[6] >= runtimeGlobals.min_strength_threshold

\* The slots of the queue that hold a frame.
C9_Occupied ==
  {(buffer_tail + k) % FRAME_BUFFER_SIZE : k \in 0..(buffer_count - 1)}

(* C9 - Frame acceptance: once processLidarSerial has decided about a      *)
(* collected 9-byte frame, atomicBufferPush has been called with it iff the *)
(* sum of its first 8 bytes mod 256 equals byte 9, its distance is within   *)
(* [7, 1200] cm and its strength is at least the minimum strength           *)
(* threshold; the frame handed to the push carries the decoded values and   *)
(* valid = true, and every frame in the queue is within these bounds and    *)
(* has valid = true.                                                        *)
C9_FrameAcceptance ==
  /\ fobs.decided => (fobs.offered <=> C9_Acceptable)
  /\ fobs.decided /\ fobs.offered =>
       /\ loc["c0"].frame.distance = fobs.collected[3] + 256 * fobs.collected[4]
       /\ loc["c0"].frame.strength = fobs.collected[5] + 256 * fobs.collected[6]
       /\ loc["c0"].frame.valid
  /\ ~MidUpdate =>
       \A i \in C9_Occupied :
          /\ frame_buffer[i].valid
          /\ frame_buffer[i].distance >= 7
          /\ frame_buffer[i].distance <= 1200
          /\ frame_buffer[i].strength >= runtimeGlobals.min_strength_threshold

\* a frame at the upper distance bound is in the queue and the frame
\* collected after it was turned away although its checksum was right
C9_Witness ==
  /\ fobs.decided /\ ~fobs.offered
  /\ Checksum8(fobs.collected, 8) = fobs.collected[9]
  /\ buffer_count > 0
  /\ frame_buffer[buffer_tail].distance = MAX_DISTANCE_CM
  /\ pc["c0"] = "idle"

\* The configuration breaks one of the two rules.
C10_Invalid(config) ==
  \E k \in SwitchCodes :
    \/ config.velocity_min_thresholds[k] > config.velocity_max_thresholds[k]
    \/ config.distance_thresholds[k] < 7
    \/ config.distance_thresholds[k] > 1200

\* Configurations with one threshold off, whether or not a GUI command can
\* produce them.
C10_Candidates ==
  {[DefaultConfig EXCEPT !.distance_thresholds[k] = d] :
      k \in {0, 7}, d \in {0, 6, 7, 1200, 1201, 65535}}
  \cup {[DefaultConfig EXCEPT !.velocity_min_thresholds[k] = v] :
      k \in {0, 7}, v \in {0 - 251, 0 - 250, 0 - 249, 32767}}

C10_SaveStep ==
  cobs'.saves = cobs.saves + 1 /\ C10_Invalid(currentConfig) =>
    /\ cfg_ret' = FALSE
    /\ storage' = storage
    /\ "CONFIG_ERROR" \in core_comm'.error_flags
    /\ currentConfig' = currentConfig

(* C10 - Config validation on save: saveConfiguration on an active          *)
(* configuration with velocity_min[k] > velocity_max[k] for some k, or a    *)
(* distance threshold outside [7, 1200], returns false, leaves the files in *)
(* storage as they were, sets the configuration-error flag and leaves the   *)
(* in-memory configuration as it was; and validateConfiguration turns down  *)
(* every such configuration.                                                *)
C10_SaveRejectsInvalid ==
  [][ /\ C10_SaveStep
      /\ \A c \in C10_Candidates : C10_Invalid(c) <=> ~validateConfiguration(c)
    ]_vars

\* a configuration was saved, then made invalid, and the save of it refused
C10_Witness ==
  /\ cobs.last = "W" /\ cobs.saves >= 2
  /\ C10_Invalid(currentConfig)
  /\ cfg_ret = FALSE
  /\ storage.config.kind = "full"
  /\ "CONFIG_ERROR" \in core_comm.error_flags

-----------------------------------------------------------------------------
(* C11 - After the startup load, whatever set commands ('d', 'w', 'm', 'g') *)
(* arrive, every distance threshold of the active configuration is within  *)
(* 7..1200 and every velocity minimum is at most its maximum.               *)
C11_DistancesInRange ==
  \A k \in SwitchCodes :
    /\ currentConfig.distance_thresholds[k] >= 7
    /\ currentConfig.distance_thresholds[k] <= 1200

C11_VelocitiesOrdered ==
  \A k \in SwitchCodes :
    currentConfig.velocity_min_thresholds[k]
      <= currentConfig.velocity_max_thresholds[k]

C11_NeverInvalid ==
  cobs.last # "boot" => (C11_DistancesInRange /\ C11_VelocitiesOrdered)

-----------------------------------------------------------------------------
(* C12 - Load fallback: once loadConfiguration has completed, the active   *)
(* configuration is the stored one, and then the file has the full size,   *)
(* its checksum matches and it passes validation, or it is the hardwired   *)
(* defaults (loadDefaultConfig leaves the checksum field as it was).       *)
C12_Fields(config) == [config EXCEPT !.checksum = 0]

C12_StoredUsable ==
  /\ cobs.mount = "mounted" /\ cobs.open = "opened"
  /\ storage.config.kind = "full"
  /\ calculateChecksum(storage.config.data) = storage.config.data.checksum
  /\ \A k \in SwitchCodes :
       /\ storage.config.data.distance_thresholds[k] \in 7..1200
       /\ storage.config.data.velocity_min_thresholds[k]
            <= storage.config.data.velocity_max_thresholds[k]

C12_LoadFallback ==
  cobs.last = "load" =>
    \/ C12_StoredUsable /\ currentConfig = storage.config.data
    \/ ~C12_StoredUsable /\ C12_Fields(currentConfig) = C12_Fields(DefaultConfig)

C12_Witness ==
  /\ cobs.last = "load"
  /\ cobs.mount = "mounted" /\ cobs.open = "opened"
  /\ storage.config.kind = "full"
  /\ calculateChecksum(storage.config.data) # storage.config.data.checksum
  /\ storage.config.data.distance_thresholds[0] # DefaultConfig.distance_thresholds[0]
  /\ C12_Fields(currentConfig) = C12_Fields(DefaultConfig)

-----------------------------------------------------------------------------
(* C13 - Velocity median: when calculateVelocity has taken five sample     *)
(* pairs and small movements are not the majority, the value it returns is *)
(* the third smallest of the five velocities; a single velocity above or   *)
(* below the four others is never returned.                                 *)
C13_Elapsed(i) ==
  (velocity_calc.history[0].timestamp - velocity_calc.history[i].timestamp
     + MicrosMod) % MicrosMod

C13_Candidates ==
  {i \in {2, 4, 6, 8, 10, 12, 14} :
     /\ i < velocity_calc.count
     /\ C13_Elapsed(i) > 1000 /\ C13_Elapsed(i) < 50000}

C13_Accepted ==
  {i \in C13_Candidates : Cardinality({j \in C13_Candidates : j < i}) < 5}

C13_Delta(i) ==
  velocity_calc.history[0].distance - velocity_calc.history[i].distance

C13_Small == {i \in C13_Accepted : C13_Delta(i) \in {0 - 1, 0, 1}}

C13_Below(i, k) == C13_Delta(i) * C13_Elapsed(k) < C13_Delta(k) * C13_Elapsed(i)

C13_Returned(k) ==
  vel_ret.dist_diff * C13_Elapsed(k) = C13_Delta(k) * vel_ret.time_diff

C13_Case ==
  /\ vobs.phase = "calc" /\ velocity_calc.count >= 5
  /\ Cardinality(C13_Accepted) = 5
  /\ 2 * Cardinality(C13_Small) <= 5

C13_Median ==
  C13_Case =>
    /\ \E k \in C13_Accepted :
         /\ C13_Returned(k)
         /\ Cardinality({j \in C13_Accepted : C13_Below(j, k)}) <= 2
         /\ Cardinality({j \in C13_Accepted : ~C13_Below(k, j)}) >= 3
    /\ \A k \in C13_Accepted :
         (\/ \A j \in C13_Accepted \ {k} : C13_Below(j, k)
          \/ \A j \in C13_Accepted \ {k} : C13_Below(k, j))
           => ~C13_Returned(k)

C13_Witness ==
  /\ C13_Case
  /\ Cardinality({i \in C13_Accepted : C13_Delta(i) = 2}) = 4
  /\ \E k \in C13_Accepted : C13_Delta(k) = 0 - 20
  /\ vel_ret.dist_diff = 2

-----------------------------------------------------------------------------
(* C14 - Deadband snap: with at least five history entries and at least    *)
(* one accepted pair, when more than half of the accepted pairs moved by   *)
(* at most 1 cm, calculateVelocity returns exactly 0, the last-known       *)
(* velocity is 0, the error counter is 0 and the velocity-error flag is     *)
(* clear.                                                                   *)
C14_Case ==
  /\ vobs.phase = "calc" /\ vobs.calls >= 1 /\ velocity_calc.count >= 5
  /\ C13_Accepted # {}
  /\ 2 * Cardinality(C13_Small) > Cardinality(C13_Accepted)

C14_DeadbandSnap ==
  C14_Case =>
    /\ vel_ret = VelZero
    /\ velocity_calc.last_velocity = VelZero
    /\ velocity_calc.error_count = 0
    /\ "VELOCITY_CALC_ERROR" \notin core_comm.error_flags

C14_Witness ==
  /\ C14_Case
  /\ vobs.prior_errors > 10
  /\ perf_metrics.velocity_calc_errors = 1
  /\ vel_ret = VelZero

-----------------------------------------------------------------------------
(* C15 - Push on a full queue: when atomicBufferPush finds buffer_count at *)
(* FRAME_BUFFER_SIZE it returns false; none of its steps changes head,     *)
(* tail, count or a stored frame; when it returns, dropped_frames is one   *)
(* more than at the call, frames_received is what it was at the call and   *)
(* the buffer-overflow flag is set.                                         *)
C15_Failing ==
  /\ ~loc["c0"].success
  /\ pc["c0"] \in {"push_exit", "drop_enter", "drop_body", "sf_enter",
                   "sf_body", "sf_perf", "sf_perf_exit", "sf_exit"}

C15_Step ==
  /\ (pc["c0"] = "push_check" /\ pc'["c0"] # "push_check")
       => ((buffer_count = FRAME_BUFFER_SIZE)
             <=> (pc'["c0"] = "push_exit" /\ ~loc'["c0"].success))
  /\ ( /\ \/ pc["c0"] = "push_check" /\ buffer_count = FRAME_BUFFER_SIZE
          \/ C15_Failing
       /\ pc'["c0"] # pc["c0"] )
       => UNCHANGED bufVars
  /\ (C15_Failing /\ pc'["c0"] = "idle")
       => /\ core_comm'.dropped_frames = qobs.dropped_at_call + 1
          /\ core_comm'.frames_received = qobs.received_at_call
          /\ "BUFFER_OVERFLOW" \in core_comm'.error_flags

C15_PushOnFull == [][C15_Step]_vars

C15_Witness ==
  /\ pc["c0"] = "idle" /\ qobs.attempts > 0 /\ ~loc["c0"].success
  /\ core_comm.dropped_frames = qobs.dropped_at_call + 1
  /\ core_comm.dropped_frames >= 2
  /\ "BUFFER_OVERFLOW" \in core_comm.error_flags
  /\ buffer_count < FRAME_BUFFER_SIZE
  /\ qobs.flushes = 0

-----------------------------------------------------------------------------
(* C18 - Wraparound-safe elapsed time: safeMillisElapsed(start, current)   *)
(* and safeMicrosElapsed(start, current) equal (current - start) modulo    *)
(* the width of the counter for every start and current, so the elapsed    *)
(* time is the same when both values are moved across the wrap of the      *)
(* counter as when they are not.                                           *)

ElapsedShifts == {1, 2000, 2001, 2002}

C18_Mod == IF elapsed.fn = "micros" THEN MicrosMod ELSE UINT32_MOD

C18_Fn(start, current) ==
  IF elapsed.fn = "micros" THEN safeMicrosElapsed(start, current)
                           ELSE safeMillisElapsed(start, current)

C18_WrapSafe ==
  elapsed.fn # "none" =>
    /\ elapsed.ret = (elapsed.current - elapsed.start) % C18_Mod
    /\ elapsed.ret \in 0..(C18_Mod - 1)
    /\ \A shift \in ElapsedShifts :
         C18_Fn((elapsed.start + shift) % C18_Mod,
                (elapsed.current + shift) % C18_Mod) = elapsed.ret

C18_Witness ==
  /\ elapsed.fn = "millis"
  /\ elapsed.current < elapsed.start
  /\ elapsed.ret = 2001

-----------------------------------------------------------------------------
(* C16 - Deadlock freedom: in every interleaving of the two loops no core  *)
(* waits for a mutex that it holds itself or that is held by a core which  *)
(* in turn waits for a mutex held by either of them, and a core that holds *)
(* one mutex only ever requests one that comes later in the order          *)
(* buffer_mutex, comm_mutex, perf_mutex, serial_mutex.                     *)

LockRank == [buffer |-> 0, comm |-> 1, perf |-> 2, serial |-> 3]

C16_Requests(c) == ~LockDone(c) /\ LockStepOf(c)[1] = "enter"

C16_Waits(c) == C16_Requests(c) /\ mutex[LockStepOf(c)[2]] # Free

C16_WaitsForever(c) ==
  /\ C16_Waits(c)
  /\ LET o == mutex[LockStepOf(c)[2]]
     IN  \/ o = c
         \/ C16_Waits(o) /\ mutex[LockStepOf(o)[2]] \in {c, o}

C16_Ordered(c) ==
  C16_Requests(c) =>
    \A h \in DOMAIN mutex :
      mutex[h] = c => LockRank[h] < LockRank[LockStepOf(c)[2]]

C16_DeadlockFree ==
  \A c \in Cores : ~C16_WaitsForever(c) /\ C16_Ordered(c)

C16_Witness ==
  /\ C16_Waits("c1")
  /\ mutex.buffer = "c1"
  /\ mutex.comm = "c0"
  /\ mutex.perf = "c0"

-----------------------------------------------------------------------------
\* The step just taken was a pass of the health monitor that performed a
\* recovery action.
RecoveryPerformed == c0obs.done # RECOVERY_LEVEL_NONE

(* C19 - Recovery only after silence: a recovery action is performed only  *)
(* by a pass of the health monitor that found configuration mode inactive  *)
(* and that ran more than 2000 ms of real time after last_frame_time was    *)
(* last set (by a pushed frame, by the end of bring-up or by the one-time  *)
(* reset when Core 1 reports ready).                                        *)
C19_OnlyAfterSilence ==
  RecoveryPerformed => (~c0obs.config_at /\ c0obs.idle_at > 2000)

-----------------------------------------------------------------------------
\* Configuration mode is off and both cores are in normal operation.
Running ==
  /\ core0_state = "CORE0_READY"
  /\ core_comm.core1_ready
  /\ ~core_comm.config_mode_active

(* C17 - Recovery liveness: whenever the system is in normal operation and *)
(* no frame is pushed from then on, the ladder goes on to the full          *)
(* re-initialisation (core0_state back at CORE0_STARTUP), and after it the  *)
(* system is in normal operation again with the attempt counter at 0.       *)
C17_RecoveryLive ==
  /\ Running ~> (core0_state = "CORE0_STARTUP")
  /\ (core0_state = "CORE0_STARTUP")
       ~> (Running /\ core_comm.recovery_attempts = 0)

-----------------------------------------------------------------------------
(* C20 - Escalation order: the action performed is the one of the attempt  *)
(* counter read by that pass (0 flush, 1 soft reset, 2 or more full        *)
(* re-initialisation); the flush leaves the queue and the input empty; the  *)
(* full re-initialisation puts core0_state at CORE0_STARTUP; the counter is *)
(* 0 when CORE0_READY is entered again; and as long as no frame is pushed   *)
(* and no re-initialisation has ended, no action is of a lower level than   *)
(* the one before it.                                                       *)
C20_Step ==
  /\ RecoveryPerformed' =>
       /\ c0obs'.done = RecoveryLevelFor(c0obs'.attempts_at)
       /\ c0obs'.done = RECOVERY_LEVEL_BUFFER_FLUSH =>
            (buffer_count' = 0 /\ buffer_head' = buffer_tail' /\ rx' = <<>>)
       /\ c0obs'.done = RECOVERY_LEVEL_FULL_REINIT =>
            core0_state' = "CORE0_STARTUP"
       /\ c0obs'.done >= c0obs'.level_before
  /\ (core0_state # "CORE0_READY" /\ core0_state' = "CORE0_READY") =>
       core_comm'.recovery_attempts = 0

C20_EscalationOrder == [][C20_Step]_vars

-----------------------------------------------------------------------------
\* Times at which attemptRecovery could be called next, around the end of
\* the delay that follows the last attempt it recorded.
C21_CallTimes ==
  {(core0_static.last_recovery_attempt + d) % UINT32_MOD :
     d \in {0, 1, RECOVERY_ATTEMPT_DELAY_MS - 1, RECOVERY_ATTEMPT_DELAY_MS}}

\* A call made less than the delay after the last recorded attempt returns
\* false and performs nothing.
C21_Refused ==
  \A recovery_level \in {RECOVERY_LEVEL_BUFFER_FLUSH, RECOVERY_LEVEL_SOFT_RESET,
                         RECOVERY_LEVEL_FULL_REINIT} :
    \A current_time \in C21_CallTimes :
      LET r == attemptRecovery(recovery_level, current_time,
                               core_comm.recovery_attempts,
                               core0_static.last_recovery_attempt)
      IN  safeMillisElapsed(core0_static.last_recovery_attempt, current_time)
            < RECOVERY_ATTEMPT_DELAY_MS
          => /\ ~r.ret
             /\ r.done = RECOVERY_LEVEL_NONE
             /\ r.recovery_attempts = core_comm.recovery_attempts
             /\ r.counted = core_comm.recovery_attempts
             /\ r.last_recovery_attempt = core0_static.last_recovery_attempt

C21_Step ==
  /\ (RecoveryPerformed' /\ c0obs.acted_at # NoTime) =>
       Elapsed32(c0obs.acted_at, c0obs'.acted_at) >= RECOVERY_ATTEMPT_DELAY_MS
  /\ ~RecoveryPerformed' =>
       /\ core_comm'.recovery_attempts <= core_comm.recovery_attempts
       /\ c0obs'.acted_at = c0obs.acted_at
  /\ C21_Refused'

(* C21 - Recovery rate limit: two recovery actions that attemptRecovery    *)
(* carries out are at least RECOVERY_ATTEMPT_DELAY_MS (5000 ms) apart; a    *)
(* call made sooner after the last recorded attempt returns false and       *)
(* leaves the attempt counter as it was and performs no flush and no reset  *)
(* of the sensor link; the counter goes up only by an action carried out.   *)
C21_RateLimit == [][C21_Step]_vars

\* the soft reset has just been carried out, after the flush
C21_Witness ==
  /\ c0obs.done = RECOVERY_LEVEL_SOFT_RESET
  /\ c0obs.level_before = RECOVERY_LEVEL_BUFFER_FLUSH
  /\ core_comm.recovery_attempts = 2
  /\ c0obs.acted_at = core0_static.last_recovery_attempt

-----------------------------------------------------------------------------
(* C22 - Bounded attempt counter: core_comm.recovery_attempts never        *)
(* exceeds MAX_RECOVERY_ATTEMPTS (3), neither between two passes of the     *)
(* loops nor as attemptRecovery's increment leaves it within a pass.        *)
C22_CounterBounded ==
  /\ core_comm.recovery_attempts <= MAX_RECOVERY_ATTEMPTS
  /\ c0obs.counted <= MAX_RECOVERY_ATTEMPTS

\* the full re-initialisation has just been signalled with the counter at 3
C22_Witness ==
  /\ c0obs.done = RECOVERY_LEVEL_FULL_REINIT
  /\ core_comm.recovery_attempts = MAX_RECOVERY_ATTEMPTS
  /\ core0_state = "CORE0_STARTUP"

(* C23 - Per-pass drain cap: one call of processIncomingFrames removes at  *)
(* most MAX_FRAMES_PER_CYCLE (5) frames from the queue, whatever the queue  *)
(* held and whatever Core 0 pushes during the call.                         *)
C23_DrainCap ==
  current_state = "STATE_RUNNING" => l1obs.removed <= MAX_FRAMES_PER_CYCLE

(* C24 - No frame is lost between queue and pipeline: in STATE_RUNNING      *)
(* every frame a successful atomicBufferPop removed is added to the         *)
(* velocity history and run through debouncer, latch and output exactly     *)
(* once, in pop order; between two steps of a pass the frames run through   *)
(* the pipeline are the frames popped, and their number is the number of    *)
(* successful pops.                                                         *)
C24_NoFrameLost ==
  /\ loop1.at # "body" =>
       /\ l1obs.piped = l1obs.popped
       /\ calls = Len(l1obs.popped)
  /\ loop1.at = "body" =>
       /\ l1obs.popped = Append(l1obs.piped, loop1.frame.distance)
       /\ calls + 1 = Len(l1obs.popped)

(* C25 - Configuration mode discards frames without processing: while      *)
(* current_state = STATE_CONFIG a pass of Core 1 runs neither the switch    *)
(* read nor the frame loop, its discard loop ends only on an empty queue,   *)
(* and no step changes the velocity history, the debouncer, the latch, the  *)
(* output pin or core_comm's velocity, distance, strength, trigger_output.  *)
C25_Step ==
  current_state = "STATE_CONFIG" =>
    /\ loop1'.at \in {"idle", "gui", "discard"}
    /\ (loop1.at = "discard" /\ loop1'.at = "idle") => buffer_count = 0
    /\ UNCHANGED <<velocity_calc, deb, latch, pin, calls>>
    /\ core_comm'.velocity = core_comm.velocity
    /\ core_comm'.distance = core_comm.distance
    /\ core_comm'.strength = core_comm.strength
    /\ core_comm'.trigger_output = core_comm.trigger_output

C25_ConfigDiscards == [][C25_Step]_vars

\* A pass in configuration mode that has discarded three frames and found
\* the queue empty.
C25_Witness ==
  /\ current_state = "STATE_CONFIG"
  /\ loop1.at = "idle"
  /\ l1obs.removed = 3
  /\ buffer_count = 0
  /\ core_comm.frames_processed >= 3
  /\ velocity_calc = VelocityCalcInit

(* C26 - Configuration write/read isolation: a configuration command       *)
(* changes the active configuration only while current_state is            *)
(* STATE_CONFIG, the trigger pipeline runs (and reads it) only while        *)
(* current_state is STATE_RUNNING, and current_state changes exactly once,  *)
(* from STATE_INIT to STATE_RUNNING or STATE_CONFIG, so that no state has   *)
(* Core 1 both at a configuration command and in the frame loop.            *)
C26_Step ==
  /\ currentConfig' # currentConfig =>
       /\ current_state = "STATE_CONFIG"
       /\ current_state' = "STATE_CONFIG"
       /\ calls' = calls
  /\ (calls' # calls \/ loop1'.at \in {"switch", "pop", "body"}) =>
       /\ current_state' = "STATE_RUNNING"
       /\ currentConfig' = currentConfig
  /\ loop1'.at \in {"gui", "discard"} => current_state' = "STATE_CONFIG"
  /\ current_state' # current_state =>
       /\ current_state = "STATE_INIT"
       /\ current_state' \in {"STATE_RUNNING", "STATE_CONFIG"}
       /\ l1obs.state_changes = 0
  /\ core_comm'.core1_ready => l1obs'.state_changes = 1

C26_Isolation == [][C26_Step]_vars

\* Configuration mode in which commands have changed the configuration
\* while frames arrived and were discarded.
C26_Witness ==
  /\ current_state = "STATE_CONFIG"
  /\ l1obs.state_changes = 1
  /\ currentConfig.distance_thresholds[0] = MIN_DISTANCE_CM
  /\ ~currentConfig.use_velocity_trigger
  /\ core_comm.frames_processed > 0
  /\ calls = 0

(* C27 - Lock discipline: no reachable state has a core that holds         *)
(* buffer_mutex or comm_mutex and is blocked acquiring another mutex or is  *)
(* performing serial output (which is done holding serial_mutex); the       *)
(* sleeps of the program are outside every critical section.                *)
C27_Holds(c) == mutex.buffer = c \/ mutex.comm = c

C27_LockDiscipline ==
  \A c \in Cores : C27_Holds(c) => (~C16_Waits(c) /\ mutex.serial # c)

(* C28 - Fill-threshold flags, per operation: a successful push that       *)
(* leaves count >= the warning threshold sets the buffer-warning flag, and  *)
(* the buffer-critical flag too when count >= the critical threshold; a     *)
(* successful push or pop that leaves count < the warning threshold clears  *)
(* both flags; a pop that leaves count >= the warning threshold writes      *)
(* neither flag.  The writes of an operation are the safeSetErrorFlag calls *)
(* it makes, each of which sets or clears its flag.                         *)
FillFlags == {"BUFFER_WARNING", "BUFFER_CRITICAL"}

C28_ClearBoth == << <<"BUFFER_WARNING", FALSE>>, <<"BUFFER_CRITICAL", FALSE>> >>

C28_PushWrites(count) ==
  IF count >= BUFFER_WARNING_THRESHOLD
    THEN IF count >= BUFFER_CRITICAL_THRESHOLD
           THEN << <<"BUFFER_WARNING", TRUE>>, <<"BUFFER_CRITICAL", TRUE>> >>
           ELSE << <<"BUFFER_WARNING", TRUE>> >>
    ELSE C28_ClearBoth

C28_PopWrites(count) ==
  IF count >= BUFFER_WARNING_THRESHOLD THEN <<>> ELSE C28_ClearBoth

C28_Step ==
  \* the count a successful push leaves, and the calls it makes
  /\ (pc["c0"] = "push_count_store" /\ pc'["c0"] # "push_count_store") =>
       loc'["c0"].current_count = buffer_count'
  /\ (pc["c0"] = "recv_body" /\ pc'["c0"] # "recv_body") =>
       loc'["c0"].todo = C28_PushWrites(loc["c0"].current_count)
  \* the calls a successful pop makes
  /\ (pc["c1"] = "pop_count_store" /\ pc'["c1"] # "pop_count_store") =>
       loc'["c1"].todo = C28_PopWrites(buffer_count')
  \* each call writes its flag, one call after the other, and nothing else
  \* writes the two flags
  /\ \A c \in Cores :
       /\ (pc[c] = "sf_body" /\ pc'[c] # "sf_body") =>
            LET call == Head(loc[c].todo)
            IN  core_comm'.error_flags =
                  IF call[2] THEN core_comm.error_flags \cup {call[1]}
                             ELSE core_comm.error_flags \ {call[1]}
       /\ (pc[c] = "sf_exit" /\ pc'[c] # "sf_exit") =>
            loc'[c].todo = Tail(loc[c].todo)
  /\ (\A c \in Cores : ~(pc[c] = "sf_body" /\ pc'[c] # "sf_body")) =>
       core_comm'.error_flags \cap FillFlags = core_comm.error_flags \cap FillFlags

C28_FlagsPerOperation == [][C28_Step]_vars

\* Three pushes have set both flags and a pop that left the count at the
\* warning threshold has written neither.
C28_Witness ==
  /\ pc["c0"] = "idle" /\ pc["c1"] = "idle"
  /\ qobs.flushes = 0
  /\ Len(qobs.pushed) = FRAME_BUFFER_SIZE
  /\ Len(qobs.popped) = 1
  /\ buffer_count = BUFFER_WARNING_THRESHOLD
  /\ FillFlags \subseteq core_comm.error_flags

(* C29 - Warning flag never stale: in every state in which no push and no  *)
(* pop is in progress and no flush has happened, the buffer-warning flag    *)
(* being set implies buffer_count >= BUFFER_WARNING_THRESHOLD, whatever the *)
(* interleaving of Core 0's pushes with Core 1's pops.                      *)
C29_Quiet == pc["c0"] = "idle" /\ pc["c1"] = "idle" /\ qobs.flushes = 0

C29_WarningNotStale ==
  (C29_Quiet /\ "BUFFER_WARNING" \in core_comm.error_flags)
    => buffer_count >= BUFFER_WARNING_THRESHOLD

(* C30 - Counter consistency: in every reachable state, under any          *)
(* interleaving of the two cores, frames_processed <= frames_received: a    *)
(* frame is never counted as processed before it is counted as received.    *)
C30_CounterConsistency ==
  core_comm.frames_processed <= core_comm.frames_received

\* The other half of C30: frames_received, frames_processed and
\* dropped_frames never decrease.
C30_Monotonic ==
  [][/\ core_comm'.frames_received >= core_comm.frames_received
     /\ core_comm'.frames_processed >= core_comm.frames_processed
     /\ core_comm'.dropped_frames >= core_comm.dropped_frames]_vars

\* C31: the framing machine is waiting for sync again as soon as the ninth
\* byte of a frame has been read, whatever the checksum and the range check
\* decide, and at the end of every call that finds a partly read frame older
\* than the adaptive timeout; while it is reading, 2 <= frame_index < 9.
C31_Framing ==
  /\ ser.sync_state = 1 => (ser.frame_index >= 2 /\ ser.frame_index < 9)
  /\ pc["c0"] # "idle" => ser.sync_state = 0

C31_Step ==
  /\ C31_Framing'
  /\ (pc["c0"] = "idle" /\ pc'["c0"] = "sf_enter")
       => (ser'.frame_index = 9 /\ ser'.sync_state = 0)
  /\ (pc["c0"] \in {"idle", "serial_tail"} /\ pc'["c0"] = "idle"
        /\ ser' # ser /\ ser'.sync_state = 1)
       => safeMicrosElapsed(ser'.frame_start_time, micros)
            <= timing_info.adaptive_timeout_us

C31_BackToWaitSync == [][C31_Step]_vars

\* a partly read frame was given up: waiting for sync with some of the nine
\* bytes collected, and a complete frame was decided either way before
C31_Witness ==
  /\ ser.sync_state = 0
  /\ ser.frame_index \in 2..8
  /\ pc["c0"] = "idle"
  /\ fobs.decided

\* frame rates at and around the two ends of the clamp, and none
ClampRates == {0, 1, 299, 300, 301, 500, 2999, 3000, 3001}

Clamp(x, lo, hi) == IF x < lo THEN lo ELSE IF x > hi THEN hi ELSE x

\* C32: timing_info.adaptive_timeout_us is always within 1000..10000 us: it
\* starts at FRAME_TIMEOUT_US, and updateAdaptiveTimeout(r) stores 3000000 / r
\* clamped to 1000..10000 for r > 0 and FRAME_TIMEOUT_US for r = 0.
C32_Bounds ==
  /\ timing_info.adaptive_timeout_us >= 1000
  /\ timing_info.adaptive_timeout_us <= 10000
  /\ \A r \in ClampRates :
       AdaptiveTimeout(r) = IF r = 0 THEN FRAME_TIMEOUT_US
                            ELSE Clamp(3000000 \div r, 1000, 10000)

C32_Step ==
  /\ C32_Bounds'
  /\ timing_info' # timing_info =>
       /\ timing_info'.frames_per_second > 0
       /\ timing_info'.adaptive_timeout_us =
            Clamp(3000000 \div timing_info'.frames_per_second, 1000, 10000)

C32_TimeoutBounds == C32_Bounds /\ [][C32_Step]_vars

\* the performance update has seen more than 3000 frames in the second and
\* the timeout stands at the lower end
C32_Witness ==
  /\ timing_info.frames_per_second > 3000
  /\ timing_info.adaptive_timeout_us = 1000
  /\ timing_info.adaptive_timeout_us # FRAME_TIMEOUT_US

\* the order of Core0InitState the bring-up is to follow
C33_Order ==
  <<"CORE0_STARTUP", "CORE0_SERIAL_INIT_LOW", "CORE0_SET_BAUD_RATE",
    "CORE0_SAVE_SETTINGS", "CORE0_BAUD_RATE_WAIT", "CORE0_SERIAL_INIT_HIGH",
    "CORE0_LIDAR_STOP", "CORE0_LIDAR_RATE", "CORE0_LIDAR_ENABLE",
    "CORE0_LIDAR_CLEANUP", "CORE0_READY">>

\* C33: core0_state changes only from one bring-up state to the next one in
\* the order STARTUP ... LIDAR_CLEANUP, READY, or from READY to STARTUP in a
\* full re-initialisation; processLidarSerial touches its frame statistics
\* and pushes or drops a frame only while core0_state is CORE0_READY and
\* Core 1 has signalled ready.
C33_Step ==
  /\ core0_state' # core0_state =>
       \/ \E i \in 1..(Len(C33_Order) - 1) :
            core0_state = C33_Order[i] /\ core0_state' = C33_Order[i + 1]
       \/ /\ core0_state = "CORE0_READY"
          /\ core0_state' = "CORE0_STARTUP"
          /\ c0obs'.done = RECOVERY_LEVEL_FULL_REINIT
  /\ ( \/ ser' # ser
       \/ core_comm'.frames_received # core_comm.frames_received
       \/ core_comm'.dropped_frames # core_comm.dropped_frames )
       => /\ core0_state = "CORE0_READY"
          /\ core0_state' = "CORE0_READY"
          /\ core_comm.core1_ready

C33_BringUpOrder == [][C33_Step]_vars

\* a frame was pushed in CORE0_READY, and after a full re-initialisation the
\* bring-up is on its way again
C33_Witness ==
  /\ core0_state = "CORE0_SAVE_SETTINGS"
  /\ c0obs.level = RECOVERY_LEVEL_FULL_REINIT
  /\ core_comm.frames_received > 0

\* C34: the TriggerLatch::update call that finds the latch LATCHED for
\* latch_duration_ms or longer leaves it IDLE and returns false, whatever its
\* input; a new hold, with a new start time, begins only in a call that found
\* the latch IDLE, so at the earliest in the call after the expiry.
C34_Step ==
  /\ (latch.state = "LATCHED"
        /\ Elapsed32(latch.latch_start_time, now') >= latch_duration_ms)
       => (latch'.state = "IDLE" /\ ~latch_ret')
  /\ (latch'.state = "LATCHED" /\ latch.state = "LATCHED")
       => latch'.latch_start_time = latch.latch_start_time
  /\ (latch'.state = "LATCHED" /\ latch.state = "IDLE")
       => (call_in' /\ latch'.latch_start_time = now')

C34_ExpiryUnconditional == [][C34_Step]_vars

\* the call that found the hold expired had a true input, and left the latch
\* IDLE with the output inactive
C34_Witness ==
  /\ latch.state = "IDLE"
  /\ call_in
  /\ ~latch_ret
  /\ obs.latched_at # NoTime
  /\ Elapsed32(obs.latched_at, now) >= latch_duration_ms

\* C35: every step of Core 1 and of the clock other than the loop body of
\* processIncomingFrames for a frame just popped leaves the output pin, the
\* debouncer, the latch and core_comm.trigger_output as they are: a hold that
\* has lasted 3000 ms stays on the output until a frame is processed.
C35_Step ==
  loop1.at # "body" =>
    /\ pin' = pin
    /\ deb' = deb
    /\ latch' = latch
    /\ core_comm'.trigger_output = core_comm.trigger_output

C35_OutputOnFrames == [][C35_Step]_vars

\* a pass at the present time read the switches and found no frame, with the
\* output active for longer than the hold
C35_Witness ==
  /\ loop1.at = "idle"
  /\ last_switch_read = now
  /\ buffer_count = 0
  /\ latch.state = "LATCHED"
  /\ pin = "LOW"
  /\ core_comm.trigger_output
  /\ Elapsed32(latch.latch_start_time, now) >= 2 * latch_duration_ms

\* The entries at even offsets whose distance in time from the newest frame
\* is more than 1000 us and less than 50000 us.
AcceptablePairs(vc) ==
  {i \in 2..(MAX_HISTORY - 1) :
     /\ i % 2 = 0
     /\ i < vc.count
     /\ LET time_diff == (vc.history[0].timestamp - vc.history[i].timestamp
                            + MicrosMod) % MicrosMod
        IN  time_diff > 1000 /\ time_diff < 50000}

\* C36: with five or more frames in the history, a calculateVelocity call
\* that finds no acceptable pair returns last_velocity, leaves it as it is and
\* adds one to error_count, and VELOCITY_CALC_ERROR is set after the call
\* exactly if error_count is then more than 10; a call that finds an
\* acceptable pair leaves error_count at 0 and the flag clear.  error_count
\* is thus the number of failed calls in a row.
C36_Step ==
  (vobs.phase = "added" /\ vobs'.phase = "calc" /\ velocity_calc.count >= 5) =>
    IF AcceptablePairs(velocity_calc) = {}
      THEN /\ vel_ret' = velocity_calc.last_velocity
           /\ velocity_calc'.last_velocity = velocity_calc.last_velocity
           /\ velocity_calc'.error_count = velocity_calc.error_count + 1
           /\ ("VELOCITY_CALC_ERROR" \in core_comm'.error_flags)
                <=> (velocity_calc.error_count + 1 > 10)
      ELSE /\ velocity_calc'.error_count = 0
           /\ "VELOCITY_CALC_ERROR" \notin core_comm'.error_flags

C36_HoldLast == [][C36_Step]_vars

\* the eleventh failed call in a row has set the flag and returned the
\* velocity found before the pauses
C36_Witness ==
  /\ vobs.phase = "calc"
  /\ velocity_calc.error_count = 11
  /\ "VELOCITY_CALC_ERROR" \in core_comm.error_flags
  /\ vel_ret = velocity_calc.last_velocity
  /\ vel_ret.dist_diff # 0

\* The calculator with its history cut after the entry at offset 10.
UpToOffset10(vc) == [vc EXCEPT !.count = Min(@, 11)]

\* C37: calculateVelocity compares the newest frame with the entries at
\* offsets 2, 4, 6, 8 and 10 only: what it returns and what it leaves in
\* last_velocity and error_count is what it would with the history cut after
\* offset 10.
C37_Step ==
  (vobs.phase = "added" /\ vobs'.phase = "calc") =>
    LET r == calculateVelocity(UpToOffset10(velocity_calc), now)
    IN  /\ VelEq(vel_ret', r.ret)
        /\ VelEq(velocity_calc'.last_velocity, r.calc.last_velocity)
        /\ velocity_calc'.error_count = r.calc.error_count

C37_SampledOffsets == [][C37_Step]_vars

\* C38: after n addFrame calls count is min(n, 15) and history[k], for
\* k < count, is the frame of the (n - k)-th call, the newest first and the
\* frames older than the newest fifteen gone; with count < 5
\* calculateVelocity returns 0 and changes nothing.
C38_Newest ==
  /\ velocity_calc.count = Min(vobs.frames, MAX_HISTORY)
  /\ \A k \in 0..(MAX_HISTORY - 1) :
       IF k < velocity_calc.count
         THEN /\ velocity_calc.history[k].timestamp = HistStamp(vobs.frames - k)
              /\ velocity_calc.history[k].valid
         ELSE velocity_calc.history[k] = NoFrame

C38_Step ==
  /\ C38_Newest'
  /\ (vobs.phase = "added" /\ vobs'.phase = "calc" /\ velocity_calc.count < 5)
       => /\ vel_ret' = VelZero
          /\ velocity_calc' = velocity_calc
          /\ core_comm' = core_comm

C38_HistoryOrder == C38_Newest /\ [][C38_Step]_vars

\* seventeen frames were added: the first two are gone, the third is the
\* oldest held
C38_Witness ==
  /\ vobs.frames = 17
  /\ velocity_calc.count = MAX_HISTORY
  /\ velocity_calc.history[MAX_HISTORY - 1].timestamp = HistStamp(3)
  /\ velocity_calc.history[0].timestamp = HistStamp(17)

\* C39: once processLidarSerial is through with a frame that failed the
\* checksum or the range check, the count of good frames in a row that leads
\* to the reset of core_comm.recovery_attempts is 0.
C39_InvalidResets ==
  (pc["c0"] = "idle" /\ fobs.decided /\ ~fobs.offered)
    => ser.consecutive_good_frames = 0

\* C40: the buffer-overflow flag does not outlast the overflow: once a push
\* has succeeded and Core 0 is through with it, ERROR_FLAG_BUFFER_OVERFLOW
\* is clear.
C40_OverflowClears ==
  (pc["c0"] = "idle" /\ loc["c0"].success)
    => "BUFFER_OVERFLOW" \notin core_comm.error_flags

\* The other flag of C40: when processLidarSerial is through with a frame
\* that passed the checksum and the range check, ERROR_FLAG_FRAME_CORRUPTION
\* is clear.
C40_CorruptionClears ==
  (pc["c0"] = "idle" /\ fobs.decided /\ fobs.offered)
    => "FRAME_CORRUPTION" \notin core_comm.error_flags
====
